---------------------------- MODULE Spec2Model ----------------------------
(***************************************************************************)
(* Model of the ATS resume bot of src/bot/handlers.py (class ATSResumeBot) *)
(* with its collaborators src/bot/utils.py (FileProcessor) and             *)
(* src/bot/pdf_generator.py (PDFGenerator).                                *)
(*                                                                         *)
(* The state is the process-wide dictionary user_sessions, the set of      *)
(* users who write to the bot, whether the bot object has the attribute    *)
(* payment_processor, the wall clock that initiate_payment reads, and a    *)
(* record of what the last handler did.                                    *)
(*                                                                         *)
(* user_sessions lives in the memory of one process, while the messages    *)
(* and the inline keyboards in a chat outlive it: the buttons of earlier   *)
(* messages, those of earlier runs of the process included, stay on        *)
(* display, so a callback of any kind can arrive at any time.              *)
(*                                                                         *)
(* A text is a run-length encoded string: a sequence of runs [c, n], the   *)
(* character c repeated n > 0 times, adjacent runs having different        *)
(* characters.  Lengths, strip() and isdigit() are computed on the runs.   *)
(***************************************************************************)
EXTENDS Integers, Sequences, FiniteSets, TLC

VARIABLES user_sessions, chats, payment_processor, now, last, probe,
          update_queue, tasks, orphans, rewritten, issued

\* the updates waiting for the dispatcher, the handler coroutines in flight,
\* the session dictionaries that only such coroutines still refer to, and for
\* each user the texts the stored optimized_resume was computed from
dispatch == <<update_queue, tasks, orphans, rewritten>>

\* issued keeps the payment ids of the sessions that are over (history)
vars == <<user_sessions, chats, payment_processor, now, last, probe, dispatch, issued>>

-----------------------------------------------------------------------------
(* Bounds of the model *)

\* the wall clock reads whole seconds from 0 to MaxTime
MaxTime == 1

-----------------------------------------------------------------------------
(* Optional values: Python's None and a present value *)

None == <<>>
Some(x) == <<x>>

-----------------------------------------------------------------------------
(* Texts *)

Whitespace == {" ", "\n"}
AsciiDigits == {"0", "1", "2", "3", "4", "5", "6", "7", "8", "9"}
\* characters outside 0-9 for which Python's str.isdigit() is true:
\* SUP2 is U+00B2 SUPERSCRIPT TWO, AR3 is U+0663 ARABIC-INDIC DIGIT THREE
OtherDigits == {"SUP2", "AR3"}

Run(c, n) == IF n > 0 THEN <<[c |-> c, n |-> n]>> ELSE <<>>

RECURSIVE TextLen(_)
TextLen(t) == IF t = <<>> THEN 0 ELSE Head(t).n + TextLen(Tail(t))

Concat(a, b) ==
    IF a = <<>> THEN b
    ELSE IF b = <<>> THEN a
    ELSE IF a[Len(a)].c = Head(b).c
         THEN SubSeq(a, 1, Len(a) - 1)
              \o <<[c |-> Head(b).c, n |-> a[Len(a)].n + Head(b).n]>>
              \o Tail(b)
         ELSE a \o b

RECURSIVE lstrip(_)
lstrip(t) ==
    IF t = <<>> THEN <<>>
    ELSE IF Head(t).c \in Whitespace THEN lstrip(Tail(t)) ELSE t

RECURSIVE rstrip(_)
rstrip(t) ==
    IF t = <<>> THEN <<>>
    ELSE IF t[Len(t)].c \in Whitespace THEN rstrip(SubSeq(t, 1, Len(t) - 1)) ELSE t

strip(t) == rstrip(lstrip(t))

\* str.isdigit(): non-empty and every character a digit character
isdigit(t) == t # <<>> /\ \A i \in 1..Len(t) : t[i].c \in AsciiDigits \cup OtherDigits

\* str(x) inside an f-string: None prints as the four characters "None"
PyStr(opt) == IF opt = None THEN Run("N", 1) \o Run("o", 1) \o Run("n", 1) \o Run("e", 1)
              ELSE opt[1]

-----------------------------------------------------------------------------
(* Program constants *)

\* Config.MAX_FILE_SIZE = 10 * 1024 * 1024
MAX_FILE_SIZE == 10485760
\* len(resume_text.strip()) < 100
MinResumeLen == 100
\* len(job_description) < 100
MinJobDescLen == 100
\* len(optimized_content) < 200
MinOptimizedLen == 200
\* len(utr) == 12
UtrLen == 12
\* max_length = 3500 in show_full_preview
PreviewMaxLen == 3500

\* ATSResumeBot.__init__ sets config, db, file_processor, cashfree_payment,
\* pdf_generator, application and user_sessions; verify_payment reads
\* self.payment_processor, an attribute that no code of the class sets:
\* the read raises AttributeError unless the attribute was set from outside.
HasPaymentProcessor == payment_processor

\* update.effective_user.first_name or "User"
NameOf(u) == IF u = 1 THEN "Asha" ELSE "User"

-----------------------------------------------------------------------------
(* FileProcessor.extract_text *)

\* An uploaded document: its declared size, the extension of its file name,
\* the text its bytes hold (parsed), and whether the parser of its format
\* raises on it (corrupt).
lower(ext) == IF ext = "PDF" THEN "pdf" ELSE ext

extract_pdf_text(f) == IF f.corrupt THEN <<>> ELSE strip(f.parsed)

extract_docx_text(f) == IF f.corrupt THEN <<>> ELSE strip(f.parsed)

extract_text(f, filename) ==
    IF filename = "pdf" THEN extract_pdf_text(f)
    ELSE IF filename = "txt" THEN f.parsed
    ELSE IF filename \in {"docx", "doc"} THEN extract_docx_text(f)
    ELSE <<>>

-----------------------------------------------------------------------------
(* The rewriter: optimize_resume_with_ai and fallback_optimization *)

\* the f-string of fallback_optimization before and after {resume_text}
SummaryBlock == Run("\n", 1) \o Run("S", 301) \o Run("\n", 2)
SkillsBlock == Run("\n", 2) \o Run("K", 201) \o Run("\n", 1) \o Run(" ", 8)

\* a variant that appends the job description to the skills block
fallback_optimization_for_job(resume_text, job_description) ==
    Concat(Concat(Concat(SummaryBlock, PyStr(resume_text)), SkillsBlock), job_description)

fallback_optimization(resume_text, job_description) ==
    Concat(Concat(SummaryBlock, PyStr(resume_text)), SkillsBlock)

\* a variant that also refuses an answer of exactly 200 characters
AiAccepted_above(ai) ==
    /\ ai.kind = "content"
    /\ ~ (TextLen(strip(ai.text)) <= MinOptimizedLen)

\* ai is what the external capability does: [kind |-> "error"] when the call
\* raises, [kind |-> "content", text |-> t] when it answers t.
AiAccepted(ai) ==
    /\ ai.kind = "content"
    /\ ~ (TextLen(strip(ai.text)) < MinOptimizedLen)

\* a variant without the fallback: a failed call leaves the empty text
optimize_resume_with_ai_no_fallback(resume_text, job_description, ai) ==
    IF AiAccepted(ai) THEN strip(ai.text) ELSE <<>>

optimize_resume_with_ai(resume_text, job_description, ai) ==
    IF AiAccepted(ai) THEN strip(ai.text)
    ELSE fallback_optimization(resume_text, job_description)

-----------------------------------------------------------------------------
(* ATSResumeBot.is_valid_utr *)

is_valid_utr(utr) == isdigit(utr) /\ TextLen(utr) = UtrLen

-----------------------------------------------------------------------------
(* Sessions and the record of the last handler *)

\* a variant that keeps the texts of the session the user already had
NewSession_keeping(u) ==
    IF u \in DOMAIN user_sessions
    THEN [user_sessions[u] EXCEPT !.step = "waiting_resume"]
    ELSE [step |-> "waiting_resume", resume_text |-> None, job_description |-> None,
          optimized_resume |-> None, payment_id |-> None, utr |-> None,
          user_name |-> IF u = 1 THEN "Asha" ELSE "User"]

\* the dictionary literal of start_command; the key 'utr' is absent (None)
\* until process_successful_payment sets it
NewSession(u) ==
    [step |-> "waiting_resume",
     resume_text |-> None,
     job_description |-> None,
     optimized_resume |-> None,
     payment_id |-> None,
     utr |-> None,
     user_name |-> NameOf(u)]

\* user_id in self.user_sessions
HasSession(u) == u \in DOMAIN user_sessions

\* the users whose updates the model follows
Chats == chats

\* callback_data of the buttons that the messages of the bot carry
Buttons ==
    {"initiate_payment", "restart_process", "show_full_preview", "start_process",
     "payment_help", "new_payment_id"}

\* What the last handler did: the update it handled (op, user), the message
\* the user was left with (reply), whether the rewriter ran and which text it
\* gave (rewriter), what became of the verifier call (verify, verifier_call),
\* the text a PDF was generated from (pdf) and whether the document was sent.
Rec(op, u, reply) ==
    [op |-> op, user |-> u, reply |-> reply,
     rewriter |-> "not_called",
     verify |-> "not_attempted", verifier_call |-> None,
     pdf |-> None, sent |-> FALSE]

\* the payment id that a session of the user holds, if any: it belongs to a
\* session that is over once the session is replaced
Retired(u) ==
    IF HasSession(u) /\ user_sessions[u].payment_id # None
    THEN {user_sessions[u].payment_id[1]} ELSE {}

\* the handler ends: the user's session entry and the record
Reply(u, session, rec) ==
    /\ user_sessions' = [user_sessions EXCEPT ![u] = session]
    /\ last' = rec
    /\ UNCHANGED <<chats, payment_processor, dispatch, issued, now, probe>>

\* the handler ends for a user without a session
ReplyNoSession(u, rec) ==
    /\ last' = rec
    /\ UNCHANGED <<user_sessions, chats, payment_processor, dispatch, issued, now, probe>>

-----------------------------------------------------------------------------
(* ATSResumeBot.start_command *)

\* a variant that rebuilds the whole table with the new session alone
start_command_clear_all(u) ==
    /\ user_sessions' = [v \in {u} |-> NewSession(u)]
    /\ last' = Rec("start", u, "welcome")
    /\ UNCHANGED <<chats, payment_processor, dispatch, issued, now, probe>>

start_command(u) ==
    /\ user_sessions' = [v \in DOMAIN user_sessions \cup {u} |->
                            IF v = u THEN NewSession(u) ELSE user_sessions[v]]
    /\ issued' = issued \cup Retired(u)
    /\ last' = Rec("start", u, "welcome")
    /\ UNCHANGED <<chats, payment_processor, dispatch, now, probe>>

-----------------------------------------------------------------------------
(* ATSResumeBot.handle_resume_upload *)

\* a variant that takes a new resume while the job description is awaited
ExpectsFile_or_jd(session) ==
    session.step \in {"waiting_resume", "waiting_job_description"}

\* session['step'] != 'waiting_resume' is the negation of this
ExpectsFile(session) == session.step = "waiting_resume"

\* a variant that measures the text without trimming it
TooShortResume_untrimmed(resume_text) ==
    resume_text = <<>> \/ TextLen(resume_text) < MinResumeLen

\* not resume_text or len(resume_text.strip()) < 100
TooShortResume(resume_text) ==
    resume_text = <<>> \/ TextLen(strip(resume_text)) < MinResumeLen

\* a variant that refuses a file of exactly the maximum size
TooLarge_inclusive(f) == f.size >= MAX_FILE_SIZE

\* file_size > self.config.MAX_FILE_SIZE
TooLarge(f) == f.size > MAX_FILE_SIZE

\* The handler from line 215 on, for a user who has a session.
\* download_ok: get_file and download_as_bytearray succeed;
\* chat: which send to the chat raises ("none", "ack": the processing
\* message, "progress", "final": the last message of the handler)
process_resume_upload(u, f, download_ok, chat) ==
    LET session == user_sessions[u]
        resume_text == extract_text(f, lower(f.ext))
    IN  IF ~ExpectsFile(session)
        THEN Reply(u, session, Rec("file", u, "wrong_step"))
        ELSE IF chat = "ack"
        THEN Reply(u, session, Rec("file", u, "error_handler"))
        ELSE IF TooLarge(f)
        THEN Reply(u, session, Rec("file", u, "file_too_large"))
        ELSE IF ~download_ok
        THEN Reply(u, session, Rec("file", u, "resume_error"))
        ELSE IF TooShortResume(resume_text)
        THEN Reply(u, session, Rec("file", u, "insufficient_text"))
        ELSE Reply(u,
                   [session EXCEPT !.resume_text = Some(resume_text),
                                   !.step = "waiting_job_description"],
                   Rec("file", u, IF chat = "final" THEN "resume_error" ELSE "resume_ok"))

\* a variant that opens a session for an unknown user instead of refusing
handle_resume_upload_autostart(u, f, download_ok, chat) ==
    IF ~HasSession(u)
    THEN /\ user_sessions' = [v \in DOMAIN user_sessions \cup {u} |->
                                 IF v = u THEN NewSession(u) ELSE user_sessions[v]]
         /\ last' = Rec("file", u, "welcome")
         /\ UNCHANGED <<chats, payment_processor, dispatch, issued, now, probe>>
    ELSE process_resume_upload(u, f, download_ok, chat)

handle_resume_upload(u, f, download_ok, chat) ==
    IF ~HasSession(u)
    THEN ReplyNoSession(u, Rec("file", u, "no_session"))
    ELSE process_resume_upload(u, f, download_ok, chat)

-----------------------------------------------------------------------------
(* PDFGenerator.generate_resume_pdf *)

\* content.split raises on None and doc.build may raise (render = "fail");
\* both end in the raise of line 99.  The buffer is named by its source text.
generate_resume_pdf(resume_content, render) ==
    IF resume_content = None \/ render = "fail" THEN None ELSE Some(resume_content[1])

-----------------------------------------------------------------------------
(* ATSResumeBot.process_job_description *)

\* a variant that lets a text of 99 characters pass
TooShortJobDescription_off_by_one(job_description) ==
    TextLen(job_description) < MinJobDescLen - 1

\* len(job_description) < 100
TooShortJobDescription(job_description) == TextLen(job_description) < MinJobDescLen

process_job_description(u, job_description, env) ==
    LET session == user_sessions[u]
        accepted == [session EXCEPT !.job_description = Some(job_description)]
        optimized_resume ==
            optimize_resume_with_ai(session.resume_text, job_description, env.ai)
        ran == IF AiAccepted(env.ai) THEN "ai" ELSE "fallback"
        ready == [accepted EXCEPT !.optimized_resume = Some(optimized_resume),
                                  !.step = "ready_for_payment"]
    IN  IF TooShortJobDescription(job_description)
        THEN Reply(u, session, Rec("text", u, "jd_too_short"))
        ELSE IF env.chat = "ack"
        THEN Reply(u, accepted, Rec("text", u, "error_handler"))
        ELSE IF env.chat = "progress"
        THEN Reply(u, accepted, Rec("text", u, "optimization_failed"))
        ELSE IF env.chat = "final"
        THEN Reply(u, ready,
                   [Rec("text", u, "optimization_failed") EXCEPT !.rewriter = ran])
        ELSE Reply(u, ready,
                   [Rec("text", u, "optimized") EXCEPT !.rewriter = ran])

-----------------------------------------------------------------------------
(* ATSResumeBot.process_successful_payment and verify_payment *)

\* a variant that writes the reference before the PDF is generated
process_successful_payment_utr_first(u, utr, env, call) ==
    LET session == user_sessions[u]
        pdf_buffer == generate_resume_pdf(session.optimized_resume, env.render)
        paid == [session EXCEPT !.utr = Some(utr)]
        completed == [paid EXCEPT !.step = "completed"]
        rec(reply) == [Rec("text", u, reply) EXCEPT !.verify = "confirmed",
                                                     !.verifier_call = call]
    IN  IF env.chat = "progress"
        THEN Reply(u, session, rec("delivery_error"))
        ELSE IF pdf_buffer = None
        THEN Reply(u, paid, rec("delivery_error"))
        ELSE IF env.chat = "final"
        THEN Reply(u, completed, [rec("delivery_error") EXCEPT !.pdf = pdf_buffer])
        ELSE Reply(u, completed,
                   [rec("delivered") EXCEPT !.pdf = pdf_buffer, !.sent = TRUE])

process_successful_payment(u, utr, env, call) ==
    LET session == user_sessions[u]
        pdf_buffer == generate_resume_pdf(session.optimized_resume, env.render)
        completed == [session EXCEPT !.step = "completed", !.utr = Some(utr)]
        rec(reply) == [Rec("text", u, reply) EXCEPT !.verify = "confirmed",
                                                     !.verifier_call = call]
    IN  IF env.chat = "progress"
        THEN Reply(u, session, rec("delivery_error"))
        ELSE IF pdf_buffer = None
        THEN Reply(u, session, rec("delivery_error"))
        ELSE IF env.chat = "final"
        THEN Reply(u, completed, [rec("delivery_error") EXCEPT !.pdf = pdf_buffer])
        ELSE Reply(u, completed,
                   [rec("delivered") EXCEPT !.pdf = pdf_buffer, !.sent = TRUE])

\* verify_payment from line 674 on, for a reference that passed the format
\* check.  env.verdict is what payment_processor.verify_utr would do: answer
\* "confirmed" or "denied", or raise ("raised").
verify_payment_remote(u, utr, env) ==
    LET session == user_sessions[u]
        call == Some(<<utr, session.payment_id>>)
    IN  IF env.chat = "ack"
        THEN Reply(u, session, Rec("text", u, "error_handler"))
        ELSE IF ~HasPaymentProcessor
        THEN Reply(u, session,
                   [Rec("text", u, "verification_error") EXCEPT !.verify = "no_processor"])
        ELSE IF env.verdict = "raised"
        THEN Reply(u, session,
                   [Rec("text", u, "verification_error") EXCEPT !.verify = "raised",
                                                                !.verifier_call = call])
        ELSE IF env.verdict = "denied"
        THEN Reply(u, session,
                   [Rec("text", u, "payment_failed") EXCEPT !.verify = "denied",
                                                            !.verifier_call = call])
        ELSE process_successful_payment(u, utr, env, call)

\* a variant that goes to the verification without the format check
verify_payment_unchecked(u, utr, env) == verify_payment_remote(u, utr, env)

verify_payment(u, utr, env) ==
    IF ~is_valid_utr(utr)
    THEN Reply(u, user_sessions[u], Rec("text", u, "invalid_utr"))
    ELSE verify_payment_remote(u, utr, env)

-----------------------------------------------------------------------------
(* ATSResumeBot.handle_text_input *)

\* a variant that verifies a reference again after the delivery
handle_text_input_reverify(u, message_text, env) ==
    IF ~HasSession(u)
    THEN ReplyNoSession(u, Rec("text", u, "no_session"))
    ELSE
    LET session == user_sessions[u]
        text == strip(message_text)
    IN  IF session.step = "waiting_job_description"
        THEN process_job_description(u, text, env)
        ELSE IF session.step \in {"waiting_utr", "completed"}
        THEN verify_payment(u, text, env)
        ELSE Reply(u, session, Rec("text", u, "unexpected_input"))

handle_text_input(u, message_text, env) ==
    IF ~HasSession(u)
    THEN ReplyNoSession(u, Rec("text", u, "no_session"))
    ELSE
    LET session == user_sessions[u]
        text == strip(message_text)
    IN  IF session.step = "waiting_job_description"
        THEN process_job_description(u, text, env)
        ELSE IF session.step = "waiting_utr"
        THEN verify_payment(u, text, env)
        ELSE Reply(u, session, Rec("text", u, "unexpected_input"))

-----------------------------------------------------------------------------------------------------------------------------------------------------
(* The callback handlers *)

\* timestamp is int(datetime.now().timestamp()): the clock never runs
\* backwards, and now keeps the latest reading
initiate_payment(u, chat, timestamp) ==
    IF ~HasSession(u)
    THEN ReplyNoSession(u, Rec("initiate_payment", u, "no_session"))
    ELSE
    LET session == user_sessions[u]
        payment_id == <<u, timestamp>>
        waiting == [session EXCEPT !.payment_id = Some(payment_id),
                                   !.step = "waiting_utr"]
    IN  /\ user_sessions' = [user_sessions EXCEPT ![u] = waiting]
        /\ now' = timestamp
        /\ last' = Rec("initiate_payment", u,
                       IF chat = "final" THEN "error_handler" ELSE "payment_instructions")
        /\ UNCHANGED <<chats, payment_processor, dispatch, issued, probe>>

\* a variant that also forgets the payment: payment_id and utr are cleared
restart_process_new_payment(u, chat) ==
    IF HasSession(u)
    THEN LET session == user_sessions[u]
             again == [session EXCEPT !.step = "waiting_job_description",
                                      !.job_description = None,
                                      !.optimized_resume = None,
                                      !.payment_id = None,
                                      !.utr = None]
         IN  Reply(u, again,
                   Rec("restart_process", u,
                       IF chat = "final" THEN "error_handler" ELSE "restarted"))
    ELSE ReplyNoSession(u, Rec("restart_process", u, "no_session"))

restart_process(u, chat) ==
    IF HasSession(u)
    THEN LET session == user_sessions[u]
             again == [session EXCEPT !.step = "waiting_job_description",
                                      !.job_description = None,
                                      !.optimized_resume = None]
         IN  Reply(u, again,
                   Rec("restart_process", u,
                       IF chat = "final" THEN "error_handler" ELSE "restarted"))
    ELSE ReplyNoSession(u, Rec("restart_process", u, "no_session"))

show_full_preview(u) ==
    IF ~HasSession(u)
    THEN ReplyNoSession(u, Rec("show_full_preview", u, "no_session"))
    ELSE
    LET session == user_sessions[u]
        optimized_resume == session.optimized_resume
    IN  IF optimized_resume = None \/ optimized_resume[1] = <<>>
        THEN Reply(u, session, Rec("show_full_preview", u, "no_preview"))
        ELSE IF TextLen(optimized_resume[1]) <= PreviewMaxLen
        THEN Reply(u, session, Rec("show_full_preview", u, "preview"))
        ELSE Reply(u, session, Rec("show_full_preview", u, "preview_parts"))

\* start_command(query, context): the CallbackQuery has no effective_user,
\* so line 59 raises before any session is written
start_from_callback(u) ==
    /\ last' = Rec("start_process", u, "error_handler")
    /\ UNCHANGED <<user_sessions, chats, payment_processor, dispatch, issued, now, probe>>

handle_callback(u, data, chat, timestamp) ==
    IF data = "initiate_payment" THEN initiate_payment(u, chat, timestamp)
    ELSE IF data = "restart_process" THEN restart_process(u, chat)
    ELSE IF data = "show_full_preview" THEN show_full_preview(u)
    ELSE IF data = "start_process" THEN start_from_callback(u)
    ELSE /\ last' = Rec(data, u, "none")
         /\ UNCHANGED <<user_sessions, chats, payment_processor, dispatch, issued, now, probe>>

-----
(* The inputs the model draws from *)

X(n) == Run("x", n)

File(size, ext, parsed, corrupt) ==
    [size |-> size, ext |-> ext, parsed |-> parsed, corrupt |-> corrupt]

Files ==
    { File(2048, "pdf", X(MinResumeLen), FALSE),
      File(2048, "pdf", X(MinResumeLen - 1), FALSE),
      File(2048, "pdf", X(MinResumeLen), TRUE),
      File(2048, "PDF", X(MinResumeLen), FALSE),
      File(2048, "txt", X(MinResumeLen - 1) \o Run("\n", 1), FALSE),
      File(2048, "txt", X(MinResumeLen) \o Run("\n", 1), FALSE),
      File(2048, "docx", Run(" ", 1) \o X(MinResumeLen), FALSE),
      File(2048, "png", X(MinResumeLen), FALSE),
      File(MAX_FILE_SIZE, "pdf", X(MinResumeLen), FALSE),
      File(MAX_FILE_SIZE + 1, "pdf", X(MinResumeLen), FALSE) }

D(c) == Run(c, 1)

\* "123456789012"
Utr123 == D("1") \o D("2") \o D("3") \o D("4") \o D("5") \o D("6")
          \o D("7") \o D("8") \o D("9") \o D("0") \o D("1") \o D("2")

\* "998877665544"
Utr998 == Run("9", 2) \o Run("8", 2) \o Run("7", 2) \o Run("6", 2)
          \o Run("5", 2) \o Run("4", 2)

Messages ==
    { X(MinJobDescLen), X(MinJobDescLen - 1),
      Run(" ", 1) \o X(MinJobDescLen - 1),
      Run("\n", 1) \o X(MinJobDescLen) \o Run(" ", 2),
      Utr998,
      Run(" ", 1) \o Utr998 \o Run("\n", 1),
      D("1") \o D("2") \o D("3") \o D("4") \o D("5"),
      Run("7", UtrLen - 1) \o D("x"),
      Run("SUP2", UtrLen) }

AiOutcomes ==
    { [kind |-> "error"],
      [kind |-> "content", text |-> Run("a", MinOptimizedLen - 1)],
      [kind |-> "content", text |-> Run("a", MinOptimizedLen - 1) \o Run("\n", 2)],
      [kind |-> "content", text |-> Run("\n", 1) \o Run("a", MinOptimizedLen)],
      [kind |-> "content", text |-> Run("a", PreviewMaxLen + 1)] }

ChatFailures == {"none", "ack", "progress", "final"}

\* What the collaborators do during one handler: which send to the chat
\* raises (chat), what the text-generation capability does (ai), what the
\* payment verifier does (verdict) and whether the PDF build succeeds
\* (render).  Only the outcomes a handler can come to consult are drawn.
Env(chat, ai, verdict, render) ==
    [chat |-> chat, ai |-> ai, verdict |-> verdict, render |-> render]

QuietEnv == Env("none", [kind |-> "error"], "denied", "ok")

JdEnvs ==
    { Env(chat, ai, "denied", "ok") : chat \in {"none", "final"}, ai \in AiOutcomes }
    \cup { Env(chat, [kind |-> "error"], "denied", "ok") : chat \in {"ack", "progress"} }

UtrEnvs ==
    { Env("none", [kind |-> "error"], verdict, "ok") : verdict \in {"denied", "raised"} }
    \cup { Env(chat, [kind |-> "error"], "confirmed", render) :
              chat \in {"none", "progress", "final"}, render \in {"ok", "fail"} }
    \cup { Env("ack", [kind |-> "error"], "denied", "ok") }

Envs == JdEnvs \cup UtrEnvs \cup {QuietEnv}

EnvsFor(u) ==
    IF ~HasSession(u) THEN {QuietEnv}
    ELSE IF user_sessions[u].step = "waiting_job_description" THEN JdEnvs
    ELSE IF user_sessions[u].step = "waiting_utr" THEN UtrEnvs
    ELSE {QuietEnv}

-----------------------------------------------------------------------------
(* The specification *)

Init ==
    /\ user_sessions = <<>>
    /\ chats = {1}
    /\ payment_processor = FALSE
    /\ now = 0
    /\ last = Rec("init", 0, "none")
    /\ probe = None
    /\ update_queue = <<>>
    /\ tasks = <<>>
    /\ orphans = <<>>
    /\ rewritten = [u \in {1} |-> None]
    /\ issued = {}

StartCommand == \E u \in Chats : start_command(u)

\* a file matters only to a session that is waiting for one
FilesFor(u) ==
    IF HasSession(u) /\ user_sessions[u].step = "waiting_resume"
    THEN Files \X BOOLEAN \X {"none", "ack", "final"}
    ELSE {<<File(2048, "pdf", X(MinResumeLen), FALSE), TRUE, "none">>}

ResumeUpload ==
    \E u \in Chats :
        \E up \in FilesFor(u) : handle_resume_upload(u, up[1], up[2], up[3])

TextInput ==
    \E u \in Chats, message_text \in Messages :
        \E env \in EnvsFor(u) : handle_text_input(u, message_text, env)

\* the timestamp and the chat failure matter to the handlers that read them
CallbackEnvs(data) ==
    IF data = "initiate_payment" THEN {"none", "final"} \X (now..MaxTime)
    ELSE IF data = "restart_process" THEN {"none", "final"} \X {now}
    ELSE {<<"none", now>>}

Callback ==
    \E u \in Chats, data \in Buttons :
        \E e \in CallbackEnvs(data) : handle_callback(u, data, e[1], e[2])

\* the process is started again: __init__ sets self.user_sessions = {}
\* and run_polling(drop_pending_updates=True) starts with no update pending
Construct ==
    /\ user_sessions' = <<>>
    /\ last' = Rec("init", 0, "none")
    /\ update_queue' = <<>>
    /\ tasks' = <<>>
    /\ orphans' = <<>>
    /\ rewritten' = [u \in Chats |-> None]
    /\ issued' = issued \cup UNION { Retired(u) : u \in Chats }
    /\ UNCHANGED <<chats, payment_processor, now, probe>>

Next ==
    \/ StartCommand
    \/ ResumeUpload
    \/ TextInput
    \/ Callback
    \/ Construct

Spec == Init /\ [][Next]_vars

\* The bot object with a payment verifier attached to it after construction
\* (bot.payment_processor = ...), as verify_payment expects to find it.
InitVerifier ==
    /\ user_sessions = <<>>
    /\ chats = {1}
    /\ payment_processor = TRUE
    /\ now = 0
    /\ last = Rec("init", 0, "none")
    /\ probe = None
    /\ update_queue = <<>>
    /\ tasks = <<>>
    /\ orphans = <<>>
    /\ rewritten = [u \in {1} |-> None]
    /\ issued = {}

SpecVerifier == InitVerifier /\ [][Next]_vars

-----------------------------------------------------------------------------
(* The dispatcher and the handlers as coroutines                            *)
(*                                                                         *)
(* Every handler is an async def: it runs without interruption from one    *)
(* await to the next and is suspended at the await.  The Application takes *)
(* the updates from update_queue one by one and calls the handler of each. *)
(* This part follows the start command, the upload, the text in            *)
(* waiting_job_description and the retry request across their awaits; the  *)
(* payment requests are not among its updates, so no step is waiting_utr.  *)

\* the most updates waiting in update_queue, and the most coroutines in flight
MaxQueue == 2
MaxTasks == 2

\* a variant built with concurrent_updates(True)
concurrent_updates_on == TRUE

\* Application.builder().token(...).build(): concurrent_updates keeps its
\* default, the update fetcher awaits process_update of one update before it
\* takes the next
concurrent_updates == FALSE

\* a variant whose handlers are registered with block=False
block_off == FALSE

\* add_handler(...) without block: process_update awaits the callback
block == TRUE

NoFile == File(0, "", <<>>, FALSE)
FileA == File(2048, "pdf", X(MinResumeLen), FALSE)
FileB == File(2048, "pdf", Run("y", MinResumeLen), FALSE)
FileShort == File(2048, "pdf", X(MinResumeLen - 1), FALSE)
JdA == X(MinJobDescLen)
JdB == Run("y", MinJobDescLen)
JdShort == X(MinJobDescLen - 1)

Update(kind, u, file, text) == [kind |-> kind, user |-> u, file |-> file, text |-> text]

Updates ==
    { Update("start", u, NoFile, <<>>) : u \in Chats }
    \cup { Update("file", u, f, <<>>) : u \in Chats, f \in {FileA, FileB, FileShort} }
    \cup { Update("text", u, NoFile, t) : u \in Chats, t \in {JdA, JdB, JdShort} }
    \cup { Update("restart_process", u, NoFile, <<>>) : u \in Chats }

\* A coroutine in flight: the update it handles, the await it is suspended at
\* (pc), the dictionary its local variable session refers to (ref = 0: the
\* one in user_sessions, ref = k > 0: orphans[k]), and the message its last
\* send leaves the user with.
Task(update, pc, reply) ==
    [kind |-> update.kind, user |-> update.user, file |-> update.file,
     text |-> update.text, pc |-> pc, ref |-> 0, reply |-> reply]

\* the awaits after which a coroutine still uses its local variable session
HoldsSession == {"processing", "download", "ack", "progress",
                 "verifying", "sleep", "verified"}

\* what a stretch of a coroutine between two awaits comes to: the await it
\* stops at, the reply when that is its last send, and the value it leaves
\* in its session dictionary (None: no write)
Went(pc, reply, write) == [pc |-> pc, reply |-> reply, write |-> write]

Ends(reply) == Went("end", reply, None)

\* what happens while a coroutine is suspended: which send to the chat
\* raises, whether the download succeeds, what the capability answers
Outcome(chat, download_ok, ai) == [chat |-> chat, download_ok |-> download_ok, ai |-> ai]

\* the same for the coroutine of verify_payment: which send raises, what
\* payment_processor.verify_utr does, whether doc.build raises
PaymentOutcome(chat, verdict, render) == [chat |-> chat, verdict |-> verdict, render |-> render]

RewriterOutcomes ==
    { [kind |-> "error"], [kind |-> "content", text |-> Run("a", MinOptimizedLen)] }

OutcomesAt(pc) ==
    IF pc = "processing" THEN { Outcome(c, TRUE, [kind |-> "error"]) : c \in {"none", "ack"} }
    ELSE IF pc = "download"
    THEN { Outcome("none", TRUE, [kind |-> "error"]),
           Outcome("none", FALSE, [kind |-> "error"]),
           Outcome("final", TRUE, [kind |-> "error"]) }
    ELSE IF pc = "ack"
    THEN { Outcome(c, TRUE, [kind |-> "error"]) : c \in {"none", "ack"} }
    ELSE IF pc = "progress"
    THEN { Outcome(c, TRUE, ai) : c \in {"none", "final"}, ai \in RewriterOutcomes }
         \cup { Outcome("progress", TRUE, [kind |-> "error"]) }
    ELSE IF pc = "answered"
    THEN { Outcome(c, TRUE, [kind |-> "error"]) : c \in {"none", "final"} }
    ELSE IF pc = "verifying"
    THEN { PaymentOutcome(c, "denied", "ok") : c \in {"none", "ack"} }
    ELSE IF pc = "sleep"
    THEN { PaymentOutcome("none", v, "ok") : v \in {"confirmed", "denied", "raised"} }
    ELSE IF pc = "verified"
    THEN { PaymentOutcome(c, "confirmed", "ok") : c \in {"none", "progress", "final"} }
         \cup { PaymentOutcome("none", "confirmed", "fail") }
    ELSE { Outcome("none", TRUE, [kind |-> "error"]) }

\* the dictionary the local variable session of a coroutine refers to
DictOf(task) == IF task.ref = 0 THEN user_sessions[task.user] ELSE orphans[task.ref]

\* The first stretch of a handler, from its call to its first await.
\* start_command: lines 59-73; handle_resume_upload: 204-225;
\* handle_text_input with process_job_description: 294-337;
\* handle_callback: 562-563; handle_text_input with verify_payment: 294-683.
Begin(update) ==
    LET u == update.user
        text == strip(update.text)
    IN  IF update.kind = "start"
        THEN Went("end", "welcome", Some(NewSession(u)))
        ELSE IF update.kind \in {"restart_process", "initiate_payment"}
        THEN Went("answered", "none", None)
        ELSE IF ~HasSession(u)
        THEN Ends("no_session")
        ELSE IF update.kind = "file"
        THEN IF ~ExpectsFile(user_sessions[u])
             THEN Ends("wrong_step")
             ELSE Went("processing", "none", None)
        ELSE IF user_sessions[u].step = "waiting_utr"
        THEN IF ~is_valid_utr(text)
             THEN Ends("invalid_utr")
             ELSE Went("verifying", "none", None)
        ELSE IF user_sessions[u].step # "waiting_job_description"
        THEN Ends("unexpected_input")
        ELSE IF TooShortJobDescription(text)
        THEN Ends("jd_too_short")
        ELSE Went("ack", "none",
                  Some([user_sessions[u] EXCEPT !.job_description = Some(text)]))

\* The stretch of a suspended coroutine from the await it is at to its next.
\* handle_resume_upload: "processing" 233-247, "download" 248-272;
\* process_job_description: "ack" 348-351, "progress" 363-368 (the call of
\* the capability in optimize_resume_with_ai is not awaited: the coroutine
\* is not suspended between the read of resume_text and the two writes);
\* handle_callback with restart_process: "answered" 565-941, with
\* initiate_payment: "answered" 565-650;
\* verify_payment: "verifying" 684-688 (the sleep begins), "sleep" 690-720
\* (verify_utr is called with the payment_id of the dictionary that
\* verify_payment read at its start, and process_successful_payment looks
\* user_sessions up itself), "verified" 723-767 (the PDF is generated from
\* the dictionary that process_successful_payment read, which is written).
Continue(task, o) ==
    LET u == task.user
        extracted == extract_text(task.file, lower(task.file.ext))
        job_description == strip(task.text)
    IN  IF task.pc = "processing"
        THEN IF o.chat = "ack" THEN Ends("error_handler")
             ELSE IF TooLarge(task.file) THEN Ends("file_too_large")
             ELSE Went("download", "none", None)
        ELSE IF task.pc = "download"
        THEN IF ~o.download_ok THEN Ends("resume_error")
             ELSE IF TooShortResume(extracted) THEN Ends("insufficient_text")
             ELSE Went("end", IF o.chat = "final" THEN "resume_error" ELSE "resume_ok",
                       Some([DictOf(task) EXCEPT !.resume_text = Some(extracted),
                                                 !.step = "waiting_job_description"]))
        ELSE IF task.pc = "ack"
        THEN IF o.chat = "ack" THEN Ends("error_handler")
             ELSE Went("progress", "none", None)
        ELSE IF task.pc = "progress"
        THEN IF o.chat = "progress" THEN Ends("optimization_failed")
             ELSE Went("end",
                       IF o.chat = "final" THEN "optimization_failed" ELSE "optimized",
                       Some([DictOf(task) EXCEPT
                               !.optimized_resume =
                                   Some(optimize_resume_with_ai(DictOf(task).resume_text,
                                                                job_description, o.ai)),
                               !.step = "ready_for_payment"]))
        ELSE IF task.pc = "verifying"
        THEN IF o.chat = "ack" THEN Ends("error_handler")
             ELSE Went("sleep", "none", None)
        ELSE IF task.pc = "sleep"
        THEN IF ~HasPaymentProcessor \/ o.verdict = "raised"
             THEN Ends("verification_error")
             ELSE IF o.verdict = "denied" THEN Ends("payment_failed")
             ELSE Went("verified", "none", None)
        ELSE IF task.pc = "verified"
        THEN IF o.chat = "progress" THEN Ends("delivery_error")
             ELSE IF generate_resume_pdf(DictOf(task).optimized_resume, o.render) = None
             THEN Ends("delivery_error")
             ELSE Went("end", IF o.chat = "final" THEN "delivery_error" ELSE "delivered",
                       Some([DictOf(task) EXCEPT !.step = "completed",
                                                 !.utr = Some(strip(task.text))]))
        ELSE IF task.kind = "initiate_payment"
        THEN \* "answered": initiate_payment looks user_sessions up itself
             IF HasSession(u)
             THEN Went("end",
                       IF o.chat = "final" THEN "error_handler" ELSE "payment_instructions",
                       Some([user_sessions[u] EXCEPT !.payment_id = Some(<<u, now>>),
                                                     !.step = "waiting_utr"]))
             ELSE Ends("no_session")
        ELSE \* "answered": restart_process looks user_sessions up itself
             IF HasSession(u)
             THEN Went("end", IF o.chat = "final" THEN "error_handler" ELSE "restarted",
                       Some([user_sessions[u] EXCEPT !.step = "waiting_job_description",
                                                     !.job_description = None,
                                                     !.optimized_resume = None]))
             ELSE Ends("no_session")

\* a dictionary that no coroutine refers to any more is gone
Collect(ts, os) == IF \A i \in 1..Len(ts) : ts[i].ref = 0 THEN <<>> ELSE os

\* self.user_sessions[user_id] = {...}: the coroutines of the user that hold
\* the former dictionary keep it
Orphaned(u) ==
    { i \in 1..Len(tasks) :
        tasks[i].user = u /\ tasks[i].ref = 0 /\ tasks[i].pc \in HoldsSession }

\* Application._update_fetcher with process_update: the next update is taken
\* when the handling of the last one is over, or at once when updates are
\* handled concurrently or the handlers do not block; the handler runs up to
\* its first await.
update_fetcher ==
    /\ update_queue # <<>>
    /\ Len(tasks) < MaxTasks
    /\ concurrent_updates \/ ~block \/ tasks = <<>>
    /\ LET update == Head(update_queue)
           u == update.user
           w == Begin(update)
           kept == IF update.kind = "start" /\ Orphaned(u) # {}
                   THEN Append(orphans, user_sessions[u]) ELSE orphans
           held == [i \in 1..Len(tasks) |->
                      IF update.kind = "start" /\ i \in Orphaned(u)
                      THEN [tasks[i] EXCEPT !.ref = Len(kept)] ELSE tasks[i]]
       IN  /\ update_queue' = Tail(update_queue)
           /\ tasks' = Append(held, Task(update, w.pc, w.reply))
           /\ orphans' = kept
           /\ user_sessions' =
                 IF w.write = None THEN user_sessions
                 ELSE [v \in DOMAIN user_sessions \cup {u} |->
                         IF v = u THEN w.write[1] ELSE user_sessions[v]]
           /\ rewritten' = IF update.kind = "start"
                           THEN [rewritten EXCEPT ![u] = None] ELSE rewritten
           /\ issued' = IF update.kind = "start"
                        THEN issued \cup Retired(u) ELSE issued
    /\ UNCHANGED <<chats, payment_processor, now, last, probe>>

\* a suspended coroutine is resumed and runs to its next await, or returns
Advance(i, o) ==
    LET task == tasks[i]
        u == task.user
        w == Continue(task, o)
        live == task.ref = 0 \/ task.pc = "answered"
        rest == [j \in 1..(Len(tasks) - 1) |-> IF j < i THEN tasks[j] ELSE tasks[j + 1]]
        next == [tasks EXCEPT ![i] =
                    [task EXCEPT !.pc = w.pc, !.reply = w.reply,
                                 !.ref = IF w.pc \in HoldsSession /\ task.pc # "sleep"
                                         THEN task.ref ELSE 0]]
        stored == IF w.write = None \/ live THEN orphans
                  ELSE [orphans EXCEPT ![task.ref] = w.write[1]]
    IN  IF task.pc = "end"
        THEN /\ tasks' = rest
             /\ last' = Rec(task.kind, u, task.reply)
             /\ UNCHANGED <<user_sessions, orphans, rewritten>>
        ELSE /\ tasks' = next
             /\ orphans' = Collect(next, stored)
             /\ user_sessions' =
                   IF w.write # None /\ live
                   THEN [user_sessions EXCEPT ![u] = w.write[1]] ELSE user_sessions
             /\ rewritten' =
                   IF w.write # None /\ live /\ task.pc = "answered"
                      /\ task.kind = "restart_process"
                   THEN [rewritten EXCEPT ![u] = None]
                   ELSE IF w.write # None /\ live /\ task.pc = "progress"
                   THEN [rewritten EXCEPT
                           ![u] = Some(<<DictOf(task).resume_text, strip(task.text)>>)]
                   ELSE rewritten
             /\ UNCHANGED last

ResumeTask ==
    /\ \E i \in 1..Len(tasks) : \E o \in OutcomesAt(tasks[i].pc) : Advance(i, o)
    /\ UNCHANGED <<chats, payment_processor, now, probe, update_queue, issued>>

\* an update of a user reaches the bot
Enqueue ==
    /\ Len(update_queue) < MaxQueue
    /\ \E update \in Updates : update_queue' = Append(update_queue, update)
    /\ UNCHANGED <<user_sessions, chats, payment_processor, now, last, probe,
                   tasks, orphans, rewritten, issued>>

NextAsync ==
    \/ Enqueue
    \/ update_fetcher
    \/ ResumeTask
    \/ Construct

SpecAsync == Init /\ [][NextAsync]_vars

-----------------------------------------------------------------------------
(* Two users: the same handlers, each update of either user handled as a   *)
(* whole, with fewer inputs drawn for each and all within one second       *)

TwoUsers == {1, 2}

InitTwo ==
    /\ user_sessions = <<>>
    /\ chats = TwoUsers
    /\ payment_processor = FALSE
    /\ now = 0
    /\ last = Rec("init", 0, "none")
    /\ probe = None
    /\ update_queue = <<>>
    /\ tasks = <<>>
    /\ orphans = <<>>
    /\ rewritten = [u \in TwoUsers |-> None]
    /\ issued = {}

ResumeUploadOfTwo ==
    \E u \in Chats, f \in {FileA, FileShort} : handle_resume_upload(u, f, TRUE, "none")

TextInputOfTwo ==
    \E u \in Chats, message_text \in {JdA, JdShort, Utr998} :
        handle_text_input(u, message_text, QuietEnv)

CallbackOfTwo ==
    \E u \in Chats, data \in Buttons :
        handle_callback(u, data, "none", now)

NextTwo ==
    \/ StartCommand
    \/ ResumeUploadOfTwo
    \/ TextInputOfTwo
    \/ CallbackOfTwo
    \/ Construct

SpecTwo == InitTwo /\ [][NextTwo]_vars

-----------------------------------------------------------------------------
(* Properties of the session state machine *)

\* exactly 12 characters, each a decimal digit 0-9
IsTwelveDecimalDigits(t) ==
    /\ TextLen(t) = 12
    /\ \A i \in 1..Len(t) : t[i].c \in AsciiDigits

Session(u) == user_sessions[u]

\* the handler that made this step handled an update of kind op for user u
Handled(op, u) == last'.op = op /\ last'.user = u

\* C1: a reference of exactly 12 decimal digits submitted while the session
\* awaits the payment reference reaches the verifier; if the verifier confirms
\* (and the chat and the PDF build do not fail) the session becomes completed
\* and a PDF is generated from optimized_resume; if it denies, the session
\* stays in waiting_utr.
C1_VerifiedReferenceCompletes ==
    [][\A u \in Chats :
          (HasSession(u) /\ Session(u).step = "waiting_utr" /\ Handled("text", u))
          => \A t \in Messages, env \in UtrEnvs :
              ( /\ IsTwelveDecimalDigits(strip(t))
                /\ env.chat = "none" /\ env.render = "ok"
                /\ Session(u).optimized_resume # None
                /\ handle_text_input(u, t, env) )
            => /\ last'.verifier_call = Some(<<strip(t), Session(u).payment_id>>)
               /\ env.verdict = "confirmed"
                    => /\ user_sessions'[u].step = "completed"
                       /\ last'.pdf = Session(u).optimized_resume
               /\ env.verdict = "denied" => user_sessions'[u].step = "waiting_utr"]_vars

\* C2: whenever a payment has been initiated for a session (payment_id set,
\* step waiting_utr), the session's optimized_resume is present.
C2_PaymentNeedsOptimizedResume ==
    \A u \in DOMAIN user_sessions :
        (Session(u).payment_id # None /\ Session(u).step = "waiting_utr")
            => Session(u).optimized_resume # None

\* C3: within one session (no start command, no new process in between) a
\* payment_id that has been generated never changes.
C3_PaymentIdImmutable ==
    [][\A u \in Chats :
          ( /\ HasSession(u) /\ Session(u).payment_id # None
            /\ ~Handled("start", u) /\ last'.op # "init" )
          => user_sessions'[u].payment_id = Session(u).payment_id]_vars

\* C4: a file, a text, a payment-initiate request, a preview request or a
\* retry request for a user without a session is refused and user_sessions
\* stays as it was.
SessionInputs ==
    {"file", "text", "initiate_payment", "show_full_preview", "restart_process"}

C4_NoSessionInputRejected ==
    [][\A u \in Chats :
          (~HasSession(u) /\ last'.user = u /\ last'.op \in SessionInputs)
          => /\ user_sessions' = user_sessions
             /\ last'.reply = "no_session"]_vars

C4_Witness ==
    /\ last.op = "initiate_payment"
    /\ last.reply = "no_session"
    /\ last.user \notin DOMAIN user_sessions

\* C5: a file in a step other than waiting_resume, and a text in a step other
\* than waiting_job_description and waiting_utr, is refused and leaves every
\* field of the session as it was.
C5_WrongKindRejected ==
    [][\A u \in Chats :
          HasSession(u) =>
            /\ (Handled("file", u) /\ Session(u).step # "waiting_resume")
                 => /\ user_sessions'[u] = Session(u)
                    /\ last'.reply = "wrong_step"
            /\ ( /\ Handled("text", u)
                 /\ Session(u).step \notin {"waiting_job_description", "waiting_utr"} )
                 => /\ user_sessions'[u] = Session(u)
                    /\ last'.reply = "unexpected_input"]_vars

C5_Witness ==
    /\ last.op = "file"
    /\ last.reply = "wrong_step"
    /\ last.user \in DOMAIN user_sessions
    /\ user_sessions[last.user].step = "waiting_job_description"
    /\ user_sessions[last.user].resume_text # None

Uploads == Files \X BOOLEAN \X {"none", "ack", "final"}

\* the text extract_text gives for an upload, and whether the handler got
\* one at all (it ran up to the extraction and the extraction gave text)
Extracted(up) == extract_text(up[1], lower(up[1].ext))
ExtractionSucceeded(up) ==
    /\ up[3] # "ack"
    /\ up[1].size <= MAX_FILE_SIZE
    /\ up[2]
    /\ Extracted(up) # <<>>

\* the outcome C6 describes for an upload in waiting_resume, accepted says
\* whether the upload is one that advances the session
UploadOutcome(u, up, accepted) ==
    /\ user_sessions'[u].step = "waiting_job_description" <=> accepted
    /\ accepted => user_sessions'[u].resume_text = Some(Extracted(up))
    /\ ~accepted => /\ user_sessions'[u].step = "waiting_resume"
                    /\ user_sessions'[u].resume_text = None

\* C6 as stated: a file received in waiting_resume advances the session to
\* waiting_job_description if and only if extraction succeeds and the
\* extracted text has at least 100 characters; then resume_text is the
\* extracted text, otherwise step and resume_text stay as they were.
C6_AdvancesIffHundredChars ==
    [][\A u \in Chats :
          (HasSession(u) /\ Session(u).step = "waiting_resume" /\ Handled("file", u))
          => \A up \in Uploads :
              ( /\ handle_resume_upload(u, up[1], up[2], up[3]) )
            => UploadOutcome(u, up,
                   ExtractionSucceeded(up) /\ TextLen(Extracted(up)) >= 100)]_vars

\* C6 amended: the same with the length taken after surrounding whitespace
\* is trimmed from the extracted text.
C6_AdvancesIffHundredTrimmedChars ==
    [][\A u \in Chats :
          (HasSession(u) /\ Session(u).step = "waiting_resume" /\ Handled("file", u))
          => \A up \in Uploads :
              ( /\ handle_resume_upload(u, up[1], up[2], up[3]) )
            => UploadOutcome(u, up,
                   ExtractionSucceeded(up) /\ TextLen(strip(Extracted(up))) >= 100)]_vars

\* an accepted upload whose stored text still ends in the newline of the file
C6_Witness ==
    /\ last.op = "file" /\ last.reply = "resume_ok"
    /\ last.user \in DOMAIN user_sessions
    /\ user_sessions[last.user].step = "waiting_job_description"
    /\ user_sessions[last.user].resume_text = Some(X(MinResumeLen) \o Run("\n", 1))

\* C7: a text of fewer than 100 characters received in
\* waiting_job_description leaves the session as it was (step,
\* job_description, optimized_resume) and the rewriter is not invoked.
C7_ShortJobDescriptionRejected ==
    [][\A u \in Chats :
          ( /\ HasSession(u) /\ Session(u).step = "waiting_job_description"
            /\ Handled("text", u) )
          => \A t \in Messages, env \in JdEnvs :
              ( /\ TextLen(t) < 100
                /\ handle_text_input(u, t, env) )
            => /\ user_sessions'[u] = Session(u)
               /\ last'.rewriter = "not_called"
               /\ last'.reply = "jd_too_short"]_vars

C7_Witness ==
    /\ last.op = "text" /\ last.reply = "jd_too_short"
    /\ last.user \in DOMAIN user_sessions
    /\ user_sessions[last.user].step = "waiting_job_description"
    /\ user_sessions[last.user].job_description = None

FailureReplies ==
    {"insufficient_text", "resume_error", "optimization_failed",
     "verification_error", "delivery_error"}

\* C13: when the handling of an input ends with a failure reported to the
\* user, the session (step, resume_text, job_description, optimized_resume,
\* payment_id, utr) is as it was before the input.
C13_FailureLeavesSession ==
    [][\A u \in Chats :
          (HasSession(u) /\ last'.user = u /\ last'.reply \in FailureReplies)
          => user_sessions'[u] = Session(u)]_vars

\* C17: an upload in waiting_resume whose declared size is above
\* MAX_FILE_SIZE (10 MiB) is refused for its size whatever the download and
\* the extraction would give (they are not reached), with step and
\* resume_text as they were; an upload of exactly MAX_FILE_SIZE is not
\* refused for its size.
C17_OversizeRejectedFirst ==
    [][\A u \in Chats :
          (HasSession(u) /\ Session(u).step = "waiting_resume" /\ Handled("file", u))
          => \A up \in Uploads :
              ( /\ handle_resume_upload(u, up[1], up[2], up[3]) )
            => /\ up[1].size > 10 * 1024 * 1024
                    => /\ user_sessions'[u] = Session(u)
                       /\ user_sessions'[u].step = "waiting_resume"
                       /\ user_sessions'[u].resume_text = None
                       /\ last'.reply \in {"file_too_large", "error_handler"}
                       /\ up[3] # "ack" => last'.reply = "file_too_large"
               /\ up[1].size <= 10 * 1024 * 1024
                    => last'.reply # "file_too_large"]_vars

\* an upload above the maximum was refused for its size
C17_Witness ==
    /\ last.op = "file" /\ last.reply = "file_too_large"
    /\ last.user \in DOMAIN user_sessions
    /\ user_sessions[last.user].step = "waiting_resume"
    /\ user_sessions[last.user].resume_text = None

\* C18: a start command, in whatever step the session of the user is, leaves
\* the user with a session in waiting_resume whose resume_text,
\* job_description, optimized_resume, payment_id and utr are unset.
C18_StartGivesFreshSession ==
    [][\A u \in Chats :
          Handled("start", u)
          => /\ u \in DOMAIN user_sessions'
             /\ user_sessions'[u].step = "waiting_resume"
             /\ user_sessions'[u].resume_text = None
             /\ user_sessions'[u].job_description = None
             /\ user_sessions'[u].optimized_resume = None
             /\ user_sessions'[u].payment_id = None
             /\ user_sessions'[u].utr = None]_vars

\* a start command after a payment had been initiated at second 1
C18_Witness ==
    /\ last.op = "start" /\ now = 1
    /\ last.user \in DOMAIN user_sessions
    /\ user_sessions[last.user].step = "waiting_resume"
    /\ user_sessions[last.user].payment_id = None

\* C19: a payment_id belongs to one session only: the payment_id of a
\* session is none of those issued in a session that is over (of the same
\* user before a start command, or of any user), and the sessions of two
\* users never hold the same payment_id.
C19_PaymentIdsUnique ==
    /\ \A u \in DOMAIN user_sessions :
          Session(u).payment_id # None => Session(u).payment_id[1] \notin issued
    /\ \A a \in DOMAIN user_sessions, b \in DOMAIN user_sessions :
          (a # b /\ Session(a).payment_id # None)
              => Session(a).payment_id # Session(b).payment_id

\* the text the rewriter gave in a step that ran it
Rewritten(u) == user_sessions'[u].optimized_resume

\* C20 as stated: an answer of the capability of 200 or more characters is
\* the optimized_resume, unchanged; an answer of fewer than 200 characters,
\* or an error of the capability, gives the fallback text.
C20_ShortAnswerIsFailure ==
    [][\A u \in Chats :
          ( /\ HasSession(u) /\ Session(u).step = "waiting_job_description"
            /\ Handled("text", u) /\ last'.rewriter # "not_called" )
          => \A t \in Messages, env \in JdEnvs :
              ( /\ handle_text_input(u, t, env) )
            => /\ (env.ai.kind = "content" /\ TextLen(env.ai.text) >= 200)
                    => Rewritten(u) = Some(env.ai.text)
               /\ (env.ai.kind = "error" \/ TextLen(env.ai.text) < 200)
                    => Rewritten(u) =
                         Some(fallback_optimization(Session(u).resume_text, strip(t)))]_vars

\* C20 amended: the same with the answer trimmed of surrounding whitespace
\* before it is measured, and returned trimmed.
C20_ShortTrimmedAnswerIsFailure ==
    [][\A u \in Chats :
          ( /\ HasSession(u) /\ Session(u).step = "waiting_job_description"
            /\ Handled("text", u) /\ last'.rewriter # "not_called" )
          => \A t \in Messages, env \in JdEnvs :
              ( /\ handle_text_input(u, t, env) )
            => /\ (env.ai.kind = "content" /\ TextLen(strip(env.ai.text)) >= 200)
                    => /\ Rewritten(u) = Some(strip(env.ai.text))
                       /\ last'.rewriter = "ai"
               /\ (env.ai.kind = "error" \/ TextLen(strip(env.ai.text)) < 200)
                    => /\ Rewritten(u) =
                            Some(fallback_optimization(Session(u).resume_text, strip(t)))
                       /\ last'.rewriter = "fallback"]_vars

\* an answer of exactly 200 characters after trimming was taken
C20_Witness ==
    /\ last.op = "text" /\ last.rewriter = "ai"
    /\ last.user \in DOMAIN user_sessions
    /\ user_sessions[last.user].optimized_resume = Some(Run("a", 200))

-----------------------------------------------------------------------------
(* The reference-format check on its own: is_valid_utr applied to strings   *)
(* of up to UtrLen + 1 characters that are all "7" but for one character.   *)

UtrChars == {"7", "0", "x", " ", "\n", "+", "-", "SUP2", "AR3"}

UtrInputs ==
    { Concat(Concat(Run("7", i - 1), D(c)), Run("7", n - i)) :
        n \in 1..(UtrLen + 1), i \in 1..(UtrLen + 1), c \in UtrChars }
    \cup { Run(c, UtrLen) : c \in UtrChars }
    \cup { <<>>, Utr123, Utr998 }

CheckUtr ==
    /\ \E utr \in UtrInputs : probe' = Some([utr |-> utr, valid |-> is_valid_utr(utr)])
    /\ UNCHANGED <<user_sessions, chats, payment_processor, dispatch, issued, now, last>>

SpecUtr == Init /\ [][CheckUtr]_vars

\* C10: is_valid_utr accepts a string if and only if it has exactly 12
\* characters and each of them is a decimal digit 0-9.
C10_AcceptsExactlyTwelveDecimalDigits ==
    probe # None => (probe[1].valid <=> IsTwelveDecimalDigits(probe[1].utr))

-----------------------------------------------------------------------------
(* Properties of a completed session, for a bot that has a verifier *)

\* C11: a text (a reference, the one already used included) sent to a
\* session that is completed generates no PDF, makes no verifier call and
\* leaves the session as it was.
C11_CompletedIgnoresReference ==
    [][\A u \in Chats :
          (HasSession(u) /\ Session(u).step = "completed" /\ Handled("text", u))
          => /\ user_sessions'[u] = Session(u)
             /\ last'.pdf = None
             /\ last'.sent = FALSE
             /\ last'.verifier_call = None
             /\ last'.verify = "not_attempted"]_vars

C11_Witness ==
    /\ last.op = "text" /\ last.reply = "unexpected_input"
    /\ last.user \in DOMAIN user_sessions
    /\ user_sessions[last.user].step = "completed"
    /\ user_sessions[last.user].utr = Some(Utr998)

\* C12: a completed session leaves its step only by the retry request, which
\* makes it waiting_job_description; a file, a text, a payment-initiate
\* request or a preview request leaves the step completed.
C12_CompletedIsTerminal ==
    [][\A u \in Chats :
          (HasSession(u) /\ Session(u).step = "completed" /\ last'.user = u)
          => /\ last'.op \in {"file", "text", "initiate_payment", "show_full_preview"}
                  => user_sessions'[u].step = "completed"
             /\ last'.op = "restart_process"
                  => user_sessions'[u].step = "waiting_job_description"]_vars

-----------------------------------------------------------------------------
(* Properties of the handlers as coroutines *)

\* the uploads of a user that passed the check of the step and have not yet
\* come to set resume_text
PastStepCheck(u) ==
    { i \in 1..Len(tasks) :
        /\ tasks[i].kind = "file" /\ tasks[i].user = u
        /\ tasks[i].pc \in {"processing", "download"} }

\* C14: the uploads of one user are handled one after the other: never two
\* of them are past the check of the step at the same time, a handler sets
\* resume_text only in a session that is still in waiting_resume with no
\* resume_text, and an upload is taken up only when no earlier handler of
\* that user is in flight, so it meets the state the earlier one left.
C14_UploadsSerialized ==
    [][\A u \in Chats :
          /\ Cardinality(PastStepCheck(u)') <= 1
          /\ ( /\ HasSession(u) /\ u \in DOMAIN user_sessions'
               /\ user_sessions'[u].resume_text # None
               /\ user_sessions'[u].resume_text # Session(u).resume_text )
               => /\ Session(u).step = "waiting_resume"
                  /\ Session(u).resume_text = None
          /\ ( /\ Len(tasks') > Len(tasks)
               /\ tasks'[Len(tasks')].kind = "file"
               /\ tasks'[Len(tasks')].user = u )
               => \A i \in 1..Len(tasks) : tasks[i].user # u]_vars

\* an upload is in flight, past the check of the step, while a second upload
\* of the same user waits in update_queue
C14_Witness ==
    \E i \in 1..Len(tasks), j \in 1..Len(update_queue) :
        /\ tasks[i].kind = "file" /\ tasks[i].pc = "download"
        /\ update_queue[j].kind = "file"
        /\ update_queue[j].user = tasks[i].user
        /\ update_queue[j].file # tasks[i].file

\* C15: when no handler is in flight, an optimized_resume that a session
\* holds is the rewrite of the resume_text and the job_description that the
\* session holds.
C15_RewriteMatchesSession ==
    tasks = <<>> =>
        \A u \in DOMAIN user_sessions :
            Session(u).optimized_resume # None
            => /\ Session(u).job_description # None
               /\ rewritten[u] =
                    Some(<<Session(u).resume_text, Session(u).job_description[1]>>)
               /\ Session(u).optimized_resume[1] \in
                    { optimize_resume_with_ai(Session(u).resume_text,
                                              Session(u).job_description[1], ai) :
                        ai \in RewriterOutcomes }

\* the handler of a job description is suspended between the write of
\* job_description and the rewrite while a retry request of the same user
\* has arrived
C15_Witness ==
    \E i \in 1..Len(tasks), j \in 1..Len(update_queue) :
        /\ tasks[i].kind = "text" /\ tasks[i].pc = "progress"
        /\ update_queue[j].kind = "restart_process"
        /\ update_queue[j].user = tasks[i].user

-----------------------------------------------------------------------------
(* Properties of the sessions of two users *)

\* C16: the handling of an update of one user (start, upload, text, payment
\* initiation, preview, retry) leaves the session entry of every other user
\* as it was: present with the same fields, or absent.
C16_OtherSessionsUnchanged ==
    [][\A a \in Chats, b \in Chats :
          (a # b /\ last'.user = a /\ last'.op # "init")
          => /\ HasSession(b) <=> b \in DOMAIN user_sessions'
             /\ HasSession(b) => user_sessions'[b] = Session(b)]_vars

\* user 1 starts anew while user 2 is waiting for the payment reference
C16_Witness ==
    /\ last.op = "start" /\ last.user = 1
    /\ DOMAIN user_sessions = {1, 2}
    /\ user_sessions[1] = NewSession(1)
    /\ user_sessions[2].step = "waiting_utr"
    /\ user_sessions[2].optimized_resume # None

-----------------------------------------------------------------------------
(* The fallback rewrite as a function: calls of fallback_optimization with  *)
(* drawn arguments, at different times, each after the calls before it      *)

MaxCalls == 2

\* the character at position i of a text, 1 <= i <= TextLen(t)
RECURSIVE CharAt(_, _)
CharAt(t, i) == IF i <= Head(t).n THEN Head(t).c ELSE CharAt(Tail(t), i - Head(t).n)

FallbackResumes == {Some(X(MinResumeLen)), Some(Run("y", MinResumeLen)),
                    Some(Run("\n", 1) \o X(120) \o Run(" ", 2)), None}

FallbackJobs == {JdA, JdB}

Called(resume_text, job_description) ==
    [resume_text |-> resume_text, job_description |-> job_description, at |-> now,
     out |-> fallback_optimization(resume_text, job_description)]

CallFallback ==
    /\ \E resume_text \in FallbackResumes, job_description \in FallbackJobs :
          probe' = IF probe = None \/ Len(probe[1]) >= MaxCalls
                   THEN Some(<<Called(resume_text, job_description)>>)
                   ELSE Some(Append(probe[1], Called(resume_text, job_description)))
    /\ UNCHANGED <<user_sessions, chats, payment_processor, dispatch, issued, now, last>>

Tick ==
    /\ now < MaxTime
    /\ now' = now + 1
    /\ UNCHANGED <<user_sessions, chats, payment_processor, dispatch, issued, last, probe>>

NextFallback ==
    \/ CallFallback
    \/ Tick

SpecFallback == Init /\ [][NextFallback]_vars

\* out is the text a, then the text r, then the text b
IsBetween(out, a, r, b) ==
    /\ TextLen(out) = TextLen(a) + TextLen(r) + TextLen(b)
    /\ \A i \in 1..TextLen(out) :
          CharAt(out, i) = IF i <= TextLen(a) THEN CharAt(a, i)
                           ELSE IF i <= TextLen(a) + TextLen(r)
                                THEN CharAt(r, i - TextLen(a))
                                ELSE CharAt(b, i - TextLen(a) - TextLen(r))

\* C21: two calls of the fallback rewrite with the same resume text return
\* the same text, whatever the job description, the time and the calls made
\* before; the text returned for a resume text is the summary block, the
\* resume text, and the additional-skills block, in this order.
C21_FallbackOnlyOfResume ==
    probe # None =>
        /\ \A i, j \in 1..Len(probe[1]) :
              probe[1][i].resume_text = probe[1][j].resume_text
              => probe[1][i].out = probe[1][j].out
        /\ \A i \in 1..Len(probe[1]) :
              probe[1][i].resume_text # None
              => IsBetween(probe[1][i].out, SummaryBlock,
                           probe[1][i].resume_text[1], SkillsBlock)

\* the same resume text rewritten twice, for two job descriptions, the
\* second call a second later
C21_Witness ==
    /\ probe # None
    /\ Len(probe[1]) = 2
    /\ probe[1][1].resume_text = Some(Run("\n", 1) \o X(120) \o Run(" ", 2))
    /\ probe[1][2].resume_text = probe[1][1].resume_text
    /\ probe[1][1].job_description # probe[1][2].job_description
    /\ probe[1][1].at < probe[1][2].at
    /\ TextLen(probe[1][2].out) = TextLen(SummaryBlock) + 123 + TextLen(SkillsBlock)

-----------------------------------------------------------------------------
(* The match scorer: get_matching_score of modules/resume_processor.py      *)
(*                                                                         *)
(* Here a text is a sequence of items, each a word (a maximal stretch      *)
(* without whitespace) or a stretch of whitespace.  str.lower and          *)
(* str.upper act on each word as Python does on its letters: the lower     *)
(* case of "STRASSE" is "strasse", while the upper case of "straße" is      *)
(* "STRASSE" and its lower case is "straße" itself.                         *)

MaxResumeWords == 2
MaxJobWords == 3

Blank == {" ", "\n"}

str_lower(w) ==
    CASE w \in {"python", "Python", "PYTHON"} -> "python"
      [] w \in {"sql", "SQL"} -> "sql"
      [] w \in {"STRASSE", "strasse"} -> "strasse"
      [] OTHER -> w

str_upper(w) ==
    CASE w \in {"python", "Python", "PYTHON"} -> "PYTHON"
      [] w \in {"sql", "SQL"} -> "SQL"
      [] w \in {"straße", "STRASSE", "strasse"} -> "STRASSE"
      [] OTHER -> w

text_lower(text) == [i \in 1..Len(text) |-> str_lower(text[i])]
text_upper(text) == [i \in 1..Len(text) |-> str_upper(text[i])]

\* str.split(): the words of a text, the whitespace dropped
IsWord(item) == item \notin Blank
split(text) == SelectSeq(text, IsWord)

\* set(...) of a list
SetOf(seq) == {seq[i] : i \in 1..Len(seq)}

\* round(score * 100, 2) for score = m / n, in hundredths of a percent: the
\* multiple of 0.01 nearest to 100 * m / n, the even one of two equally near
round2(m, n) ==
    LET h == (10000 * m) \div n
        r == (10000 * m) % n
    IN  IF 2 * r > n THEN h + 1
        ELSE IF 2 * r = n /\ h % 2 = 1 THEN h + 1
        ELSE h

\* a variant that divides by the number of words of the resume
get_matching_score_of_resume(resume_text, job_desc) ==
    LET resume_words == SetOf(split(text_lower(resume_text)))
        job_words == SetOf(split(text_lower(job_desc)))
        matches == resume_words \cap job_words
    IN  IF resume_words # {} THEN round2(Cardinality(matches), Cardinality(resume_words))
        ELSE 0

\* the score in hundredths of a percent: 3333 is 33.33
get_matching_score(resume_text, job_desc) ==
    LET resume_words == SetOf(split(text_lower(resume_text)))
        job_words == SetOf(split(text_lower(job_desc)))
        matches == resume_words \cap job_words
    IN  IF job_words # {} THEN round2(Cardinality(matches), Cardinality(job_words))
        ELSE 0

ScoreWords == {"python", "Python", "sql", "straße", "STRASSE"}

RECURSIVE WordSeqs(_)
WordSeqs(n) ==
    IF n = 0 THEN {<<>>}
    ELSE WordSeqs(n - 1)
         \cup {Append(s, w) : s \in {t \in WordSeqs(n - 1) : Len(t) = n - 1}, w \in ScoreWords}

\* the words of ws, a newline before the first and a space after each
RECURSIVE Spaced(_)
Spaced(ws) == IF ws = <<>> THEN <<"\n">> ELSE Spaced(SubSeq(ws, 1, Len(ws) - 1)) \o <<ws[Len(ws)], " ">>

ResumeTexts == {Spaced(ws) : ws \in WordSeqs(MaxResumeWords)} \cup {<<>>}
JobTexts == {Spaced(ws) : ws \in WordSeqs(MaxJobWords)} \cup {<<>>}

\* the arguments of a call, and the score once the call has returned
Scored(resume_text, job_desc, change, before) ==
    [resume_text |-> resume_text, job_desc |-> job_desc,
     score |-> get_matching_score(resume_text, job_desc),
     change |-> change, before |-> before]

Unscored(resume_text, job_desc) ==
    [resume_text |-> resume_text, job_desc |-> job_desc,
     score |-> 0, change |-> "unscored", before |-> 0]

\* the bot at rest, as after construction
AtRest ==
    /\ user_sessions = <<>>
    /\ chats = {1}
    /\ payment_processor = FALSE
    /\ now = 0
    /\ last = Rec("init", 0, "none")
    /\ update_queue = <<>>
    /\ tasks = <<>>
    /\ orphans = <<>>
    /\ rewritten = [u \in {1} |-> None]
    /\ issued = {}

InitScore ==
    /\ AtRest
    /\ probe \in {Some(Unscored(resume_text, job_desc)) :
                     resume_text \in ResumeTexts, job_desc \in JobTexts}

Score ==
    /\ probe[1].change = "unscored"
    /\ probe' = Some(Scored(probe[1].resume_text, probe[1].job_desc, "none", 0))
    /\ UNCHANGED <<user_sessions, chats, payment_processor, dispatch, issued, now, last>>

\* the text t in another letter case, with its items in another order, or
\* with every item twice
Reverse(t) == [i \in 1..Len(t) |-> t[Len(t) + 1 - i]]

Changed(t, change) ==
    CASE change = "upper" -> text_upper(t)
      [] change = "lower" -> text_lower(t)
      [] change = "reorder" -> Reverse(t)
      [] change = "repeat" -> t \o t

Changes == {"upper", "lower", "reorder", "repeat"}

\* the score of the last pair again, after a change of one of its two texts
ScoreChanged ==
    /\ probe[1].change = "none"
    /\ \E change \in Changes :
          \/ probe' = Some(Scored(Changed(probe[1].resume_text, change), probe[1].job_desc,
                                  change, probe[1].score))
          \/ probe' = Some(Scored(probe[1].resume_text, Changed(probe[1].job_desc, change),
                                  change, probe[1].score))
    /\ UNCHANGED <<user_sessions, chats, payment_processor, dispatch, issued, now, last>>

NextScore ==
    \/ Score
    \/ ScoreChanged

SpecScore == InitScore /\ [][NextScore]_vars

\* the words of a text, in lower case, each once
Tokens(text) == {str_lower(text[i]) : i \in {j \in 1..Len(text) : text[j] \notin Blank}}

JobTokens == Tokens(probe[1].job_desc)
JobTokensInResume == Tokens(probe[1].job_desc) \cap Tokens(probe[1].resume_text)

\* C22 as stated: the score is 0 for a job description without tokens, lies
\* between 0 and 100, and is 100 times the fraction of the tokens of the job
\* description that occur in the resume.
C22_ScoreIsFraction ==
    (probe # None /\ probe[1].change # "unscored") =>
        /\ JobTokens = {} => probe[1].score = 0
        /\ probe[1].score \in 0..10000
        /\ probe[1].score * Cardinality(JobTokens) = 10000 * Cardinality(JobTokensInResume)

\* C22, amended: the score is 0 for a job description without tokens, lies
\* between 0 and 100, and is 100 times the fraction of the tokens of the job
\* description that occur in the resume, rounded to two decimal places.
C22_ScoreIsRoundedFraction ==
    (probe # None /\ probe[1].change # "unscored") =>
        /\ JobTokens = {} => probe[1].score = 0
        /\ probe[1].score \in 0..10000
        /\ LET d == probe[1].score * Cardinality(JobTokens)
                      - 10000 * Cardinality(JobTokensInResume)
           IN  2 * d <= Cardinality(JobTokens) /\ 2 * d >= 0 - Cardinality(JobTokens)

\* one of the three tokens of a job description occurs in the resume: 33.33
C22_Witness ==
    /\ probe # None
    /\ probe[1].change = "none"
    /\ Cardinality(JobTokens) = 3
    /\ Cardinality(JobTokensInResume) = 1
    /\ probe[1].score = 3333

\* C23: the score of a pair of texts is the score the pair had before the
\* letter case of one of the texts was changed, its tokens were reordered,
\* or its tokens were repeated.
C23_ScoreOfTokenSets ==
    (probe # None /\ probe[1].change \notin {"unscored", "none"})
    => probe[1].score = probe[1].before

-----------------------------------------------------------------------------
(* Properties of the text extraction *)

SupportedExtensions == {"pdf", "txt", "docx", "doc"}

\* the upload reaches extract_text: the processing message is sent, the
\* file is not too large and its download succeeds
ReachesExtraction(up) == up[3] = "none" /\ ~TooLarge(up[1]) /\ up[2]

\* C24: an upload in waiting_resume of a file whose extension is none of
\* pdf, txt, docx, doc leaves the session as it was, has no text extracted
\* by a parser, and is answered otherwise than an upload whose extraction
\* failed (a corrupt file of a supported extension).
C24_UnsupportedFormatDistinct ==
    [][\A u \in Chats :
          (HasSession(u) /\ Session(u).step = "waiting_resume" /\ Handled("file", u))
          => \A up \in Uploads :
              ( /\ lower(up[1].ext) \notin SupportedExtensions
                /\ ReachesExtraction(up)
                /\ handle_resume_upload(u, up[1], up[2], up[3]) )
            => /\ user_sessions'[u] = Session(u)
               /\ Extracted(up) = <<>>
               /\ \A failed \in Uploads :
                    ( /\ lower(failed[1].ext) \in SupportedExtensions
                      /\ failed[1].corrupt
                      /\ ReachesExtraction(failed) )
                    => ~ handle_resume_upload(u, failed[1], failed[2], failed[3])]_vars

-----------------------------------------------------------------------------
(* The payment gateway client: CashfreePayment of src/bot/cashfree_pyment.py *)
(*                                                                         *)
(* A payload and a timestamp are sequences of characters.  A digest is     *)
(* represented by the key and the message it was computed from: two        *)
(* digests are equal exactly when both are (HMAC-SHA256 without            *)
(* collisions).  A signature is the hexadecimal text of a digest, or a     *)
(* value compare_digest refuses: None, or a text with a character outside  *)
(* ASCII.                                                                   *)

MaxPayload == 2

hmac_new(key, msg) == [key |-> key, msg |-> msg]

Hex(digest) == [kind |-> "hex", digest |-> digest]
NoDigest == hmac_new("", <<>>)
NoSignature == [kind |-> "none", digest |-> NoDigest]
NonAsciiSignature == [kind |-> "nonascii", digest |-> NoDigest]

\* f"{timestamp}.{payload}"
signing_string(timestamp, payload) == timestamp \o <<".">> \o payload

\* a variant that signs the timestamp alone
verify_webhook_signature_of_timestamp(self, payload, signature, timestamp) ==
    IF self.client_secret = None THEN FALSE
    ELSE IF signature.kind # "hex" THEN FALSE
    ELSE Hex(hmac_new(self.client_secret[1], timestamp)) = signature

\* self.client_secret is None when the environment does not set it, and
\* encode() then raises; compare_digest raises for a signature that is not
\* an ASCII text; the except returns False
verify_webhook_signature(self, payload, signature, timestamp) ==
    IF self.client_secret = None THEN FALSE
    ELSE IF signature.kind # "hex" THEN FALSE
    ELSE Hex(hmac_new(self.client_secret[1], signing_string(timestamp, payload))) = signature

PayloadChars == {"a", "b", "."}

RECURSIVE Payloads(_)
Payloads(n) ==
    IF n = 0 THEN {<<>>}
    ELSE Payloads(n - 1)
         \cup {Append(s, c) : s \in {t \in Payloads(n - 1) : Len(t) = n - 1}, c \in PayloadChars}

Timestamps == {<<"1">>, <<"1", ".">>, <<"1", ".", "a">>, <<>>}

Secrets == {Some("secret"), None}

Signatures ==
    {Hex(hmac_new(key, signing_string(timestamp, payload))) :
        key \in {"secret", "guess"}, timestamp \in Timestamps, payload \in Payloads(MaxPayload)}
    \cup {NoSignature, NonAsciiSignature}

Webhook(self, payload, signature, timestamp, stage, accepted) ==
    [self |-> self, payload |-> payload, signature |-> signature, timestamp |-> timestamp,
     stage |-> stage, accepted |-> accepted]

InitWebhook ==
    /\ AtRest
    /\ probe \in {Some(Webhook([client_secret |-> secret], payload, signature, timestamp,
                               "received", FALSE)) :
                     secret \in Secrets, payload \in Payloads(MaxPayload),
                     signature \in Signatures, timestamp \in Timestamps}

VerifyWebhook ==
    /\ probe[1].stage = "received"
    /\ probe' = Some([probe[1] EXCEPT
                        !.stage = "verified",
                        !.accepted = verify_webhook_signature(probe[1].self, probe[1].payload,
                                                              probe[1].signature,
                                                              probe[1].timestamp)])
    /\ UNCHANGED <<user_sessions, chats, payment_processor, dispatch, issued, now, last>>

\* an accepted webhook arrives again with one character of its payload
\* changed, the signature kept, and any timestamp
VerifyTampered ==
    /\ probe[1].stage = "verified"
    /\ probe[1].accepted
    /\ \E i \in 1..Len(probe[1].payload), c \in PayloadChars, timestamp \in Timestamps :
          /\ c # probe[1].payload[i]
          /\ LET payload == [probe[1].payload EXCEPT ![i] = c]
             IN  probe' = Some(Webhook(probe[1].self, payload, probe[1].signature, timestamp,
                                       "tampered",
                                       verify_webhook_signature(probe[1].self, payload,
                                                                probe[1].signature, timestamp)))
    /\ UNCHANGED <<user_sessions, chats, payment_processor, dispatch, issued, now, last>>

NextWebhook ==
    \/ VerifyWebhook
    \/ VerifyTampered

SpecWebhook == InitWebhook /\ [][NextWebhook]_vars

\* the message reads as the timestamp, a dot, the payload
IsSigningString(msg, timestamp, payload) ==
    /\ Len(msg) = Len(timestamp) + 1 + Len(payload)
    /\ \A i \in 1..Len(msg) :
          msg[i] = IF i <= Len(timestamp) THEN timestamp[i]
                   ELSE IF i = Len(timestamp) + 1 THEN "."
                   ELSE payload[i - Len(timestamp) - 1]

\* C25: a webhook is accepted only if its signature is the digest, under the
\* shared secret, of the timestamp, a dot and the payload; an accepted
\* webhook with one character of the payload changed and the signature kept
\* is rejected, whatever timestamp comes with it; a verification that raises
\* (no secret configured, a signature that is None or not ASCII) rejects.
C25_WebhookAcceptsOnlySigned ==
    (probe # None /\ probe[1].stage # "received") =>
        /\ probe[1].accepted =>
              /\ probe[1].self.client_secret # None
              /\ probe[1].signature.kind = "hex"
              /\ probe[1].signature.digest.key = probe[1].self.client_secret[1]
              /\ IsSigningString(probe[1].signature.digest.msg,
                                 probe[1].timestamp, probe[1].payload)
        /\ probe[1].stage = "tampered" => ~probe[1].accepted
        /\ (probe[1].self.client_secret = None \/ probe[1].signature.kind # "hex")
           => ~probe[1].accepted

\* a webhook accepted under the timestamp "1" comes again with the second
\* character of its payload changed and the timestamp "1.", and is rejected
C25_Witness ==
    /\ probe # None
    /\ probe[1].stage = "tampered"
    /\ probe[1].timestamp = <<"1", ".">>
    /\ probe[1].payload = <<".", "b">>
    /\ probe[1].signature = Hex(hmac_new("secret", <<"1", ".", ".", "a">>))
    /\ ~probe[1].accepted

-----------------------------------------------------------------------------
(* Order initiation: create_payment_order and create_upi_payment_link       *)
(*                                                                         *)
(* What the gateway does to a request is a response: requests raises (the  *)
(* gateway is unreachable or times out), or an answer arrives with a       *)
(* status code and a body that is JSON or not.                              *)

PAYMENT_AMOUNT == 5
UPI_ID == "suryaresume@paytm"

Raises == [kind |-> "raise", status_code |-> 0, json |-> FALSE, order_status |-> "NONE"]
Answer(status_code, json, order_status) ==
    [kind |-> "answer", status_code |-> status_code, json |-> json, order_status |-> order_status]

OrderResponses ==
    {Raises, Answer(200, TRUE, "ACTIVE"), Answer(200, FALSE, "NONE"),
     Answer(400, TRUE, "NONE"), Answer(502, FALSE, "NONE")}

\* the dictionaries the two functions return
Failure(error) ==
    [success |-> FALSE, kind |-> "failure", manual_upi |-> FALSE, upi_id |-> None,
     order_id |-> None, amount |-> None, payment_url |-> None, error |-> error]
OrderCreated(order_id, amount) ==
    [success |-> TRUE, kind |-> "order", manual_upi |-> FALSE, upi_id |-> None,
     order_id |-> Some(order_id), amount |-> Some(amount), payment_url |-> None,
     error |-> "none"]
PaymentLink(order_id, amount) ==
    [success |-> TRUE, kind |-> "link", manual_upi |-> FALSE, upi_id |-> Some(UPI_ID),
     order_id |-> Some(order_id), amount |-> Some(amount), payment_url |-> Some("url"),
     error |-> "none"]
ManualUpi(order_id, amount, error) ==
    [success |-> TRUE, kind |-> "manual", manual_upi |-> TRUE, upi_id |-> Some(UPI_ID),
     order_id |-> Some(order_id), amount |-> Some(amount), payment_url |-> None,
     error |-> error]

\* amount or self.config.PAYMENT_AMOUNT
AmountOr(amount) == IF amount = 0 THEN PAYMENT_AMOUNT ELSE amount

create_payment_order(user_id, payment_id, amount, response) ==
    IF response.kind = "raise" THEN Failure("exception")
    ELSE IF response.status_code = 200
         THEN IF response.json THEN OrderCreated(payment_id, AmountOr(amount))
              ELSE Failure("exception")
         ELSE IF response.json THEN Failure("message") ELSE Failure("exception")

create_upi_payment_link(payment_id, amount, user_id, order_response, link_response) ==
    LET order_result == create_payment_order(user_id, payment_id, amount, order_response)
    IN  IF ~order_result.success THEN order_result
        ELSE IF link_response.kind = "raise" THEN ManualUpi(payment_id, amount, "error_fallback")
        ELSE IF link_response.status_code = 200
             THEN IF link_response.json THEN PaymentLink(payment_id, amount)
                  ELSE ManualUpi(payment_id, amount, "error_fallback")
             ELSE ManualUpi(payment_id, amount, "none")

PaymentIds == {"ATS_1_100", "ATS_2_100"}
Amounts == {0, PAYMENT_AMOUNT}

Order(payment_id, amount, user_id, order_response, link_response, stage, result) ==
    [payment_id |-> payment_id, amount |-> amount, user_id |-> user_id,
     order_response |-> order_response, link_response |-> link_response,
     stage |-> stage, result |-> result]

InitOrder ==
    /\ AtRest
    /\ probe \in {Some(Order(payment_id, amount, user_id, order_response, link_response,
                             "called", Failure("none"))) :
                     payment_id \in PaymentIds, amount \in Amounts, user_id \in TwoUsers,
                     order_response \in OrderResponses, link_response \in OrderResponses}

CreatePaymentOrder ==
    /\ probe[1].stage = "called"
    /\ probe' = Some([probe[1] EXCEPT
                        !.stage = "order",
                        !.result = create_payment_order(probe[1].user_id, probe[1].payment_id,
                                                        probe[1].amount,
                                                        probe[1].order_response)])
    /\ UNCHANGED <<user_sessions, chats, payment_processor, dispatch, issued, now, last>>

CreateUpiPaymentLink ==
    /\ probe[1].stage = "called"
    /\ probe' = Some([probe[1] EXCEPT
                        !.stage = "link",
                        !.result = create_upi_payment_link(probe[1].payment_id, probe[1].amount,
                                                           probe[1].user_id,
                                                           probe[1].order_response,
                                                           probe[1].link_response)])
    /\ UNCHANGED <<user_sessions, chats, payment_processor, dispatch, issued, now, last>>

NextOrder ==
    \/ CreatePaymentOrder
    \/ CreateUpiPaymentLink

SpecOrder == InitOrder /\ [][NextOrder]_vars

\* the gateway did not serve the request: it was unreachable or it answered
\* with an error
GatewayFailed(response) == response.kind = "raise" \/ response.status_code # 200

\* C26: when the gateway is unreachable or answers with an error, at the
\* creation of the order or at the creation of the payment link, the order
\* initiation returns the manual instructions: a successful result with the
\* UPI id of the recipient, the order id and the amount.
C26_GatewayFailureGivesManual ==
    (probe # None /\ probe[1].stage = "link") =>
        ( (GatewayFailed(probe[1].order_response) \/ GatewayFailed(probe[1].link_response))
          => /\ probe[1].result.success
             /\ probe[1].result.manual_upi
             /\ probe[1].result.upi_id = Some(UPI_ID)
             /\ probe[1].result.order_id = Some(probe[1].payment_id)
             /\ probe[1].result.amount = Some(probe[1].amount) )

-----------------------------------------------------------------------------
(* The status check: verify_payment_status, next to the session flow with   *)
(* the verifier, fewer inputs drawn for the handlers and all within one     *)
(* second                                                                   *)

StatusResponses ==
    {Raises, Answer(200, TRUE, "PAID"), Answer(200, TRUE, "ACTIVE"),
     Answer(200, FALSE, "NONE"), Answer(404, TRUE, "PAID"), Answer(502, FALSE, "NONE")}

\* the dictionary verify_payment_status returns; a failure result has no
\* key is_paid
StatusResult(success, is_paid, order_status) ==
    [success |-> success, is_paid |-> is_paid, order_status |-> order_status]

\* a variant that takes the order status from the body whatever the status
\* code of the answer
verify_payment_status_any_code(order_id, response) ==
    IF response.kind = "raise" THEN StatusResult(FALSE, None, None)
    ELSE IF response.json
         THEN StatusResult(TRUE, Some(response.order_status = "PAID"),
                           Some(response.order_status))
         ELSE StatusResult(FALSE, None, None)

verify_payment_status(order_id, response) ==
    IF response.kind = "raise" THEN StatusResult(FALSE, None, None)
    ELSE IF response.status_code = 200
         THEN IF response.json
              THEN StatusResult(TRUE, Some(response.order_status = "PAID"),
                                Some(response.order_status))
              ELSE StatusResult(FALSE, None, None)
         ELSE StatusResult(FALSE, None, None)

VerifyPaymentStatus ==
    /\ \E order_id \in PaymentIds, response \in StatusResponses :
          probe' = Some([order_id |-> order_id, response |-> response,
                         result |-> verify_payment_status(order_id, response)])
    /\ UNCHANGED <<user_sessions, chats, payment_processor, dispatch, issued, now, last>>

\* a text to a session: a job description or a payment reference, which the
\* verifier confirms or denies, or whose verification raises
TextInputOfStatus ==
    \E u \in Chats, message_text \in {JdA, Utr998}, verdict \in {"confirmed", "denied", "raised"} :
        handle_text_input(u, message_text, Env("none", [kind |-> "error"], verdict, "ok"))

NextStatus ==
    \/ StartCommand
    \/ ResumeUploadOfTwo
    \/ TextInputOfStatus
    \/ CallbackOfTwo
    \/ VerifyPaymentStatus

SpecStatus == InitVerifier /\ [][NextStatus]_vars

\* the gateway answered the status request successfully
Answered(response) ==
    response.kind = "answer" /\ response.status_code = 200 /\ response.json

\* C27: a status check reports is_paid true exactly when the gateway
\* answered successfully with the order status PAID; a successful answer
\* with another status gives a successful result with is_paid false, and a
\* transport or API error gives a failure result, which has no is_paid; a
\* payment reference that the verifier denies, or whose verification raises,
\* leaves the session as it was, waiting for the payment reference.
C27_StatusAndVerificationFailures ==
    [][/\ (probe' # None /\ probe' # probe) =>
             LET check == probe'[1]
             IN  /\ check.result.is_paid = Some(TRUE)
                      <=> (Answered(check.response) /\ check.response.order_status = "PAID")
                 /\ (Answered(check.response) /\ check.response.order_status # "PAID")
                      => (check.result.success /\ check.result.is_paid = Some(FALSE))
                 /\ ~Answered(check.response)
                      => (~check.result.success /\ check.result.is_paid = None)
       /\ \A u \in Chats :
             ( /\ HasSession(u) /\ Session(u).step = "waiting_utr"
               /\ Handled("text", u)
               /\ last'.verify \in {"denied", "raised", "no_processor"} )
             => /\ user_sessions'[u] = Session(u)
                /\ last'.pdf = None /\ ~last'.sent]_vars

\* the gateway has answered a status request with 404 and a body that says
\* PAID, and the verifier has denied the reference of a session that waits
\* for one
C27_Witness ==
    /\ probe # None
    /\ probe[1].response = Answer(404, TRUE, "PAID")
    /\ ~probe[1].result.success
    /\ last.op = "text" /\ last.verify = "denied"
    /\ last.user \in DOMAIN user_sessions
    /\ user_sessions[last.user].step = "waiting_utr"
    /\ user_sessions[last.user].utr = None

-----------------------------------------------------------------------------
(* Properties of the delivery *)

\* C28: when the verifier confirms the reference of a session in waiting_utr
\* and the rendering of the PDF then fails, the reply is the delivery error
\* (an issue generating the PDF), the session stays as it was, in
\* waiting_utr with utr unset, and no document is made or sent.
C28_RenderFailureKeepsSession ==
    [][\A u \in Chats :
          (HasSession(u) /\ Session(u).step = "waiting_utr" /\ Handled("text", u))
          => \A message_text \in Messages, env \in UtrEnvs :
              ( /\ is_valid_utr(message_text)
                /\ env.verdict = "confirmed"
                /\ env.chat # "progress"
                /\ (env.render = "fail" \/ Session(u).optimized_resume = None)
                /\ handle_text_input(u, message_text, env) )
            => /\ last'.reply = "delivery_error"
               /\ user_sessions'[u] = Session(u)
               /\ user_sessions'[u].step = "waiting_utr"
               /\ user_sessions'[u].utr = None
               /\ last'.pdf = None
               /\ ~last'.sent]_vars

-----------------------------------------------------------------------------
(* The renderer: process_resume_content and is_section_header of            *)
(* src/bot/pdf_generator.py                                                 *)
(*                                                                         *)
(* Here the content is the sequence of its lines, and a line is a sequence *)
(* of items: a word of the vocabulary below, or a run of one character     *)
(* ("x" a letter of prose, " " a space, "ß" the letter whose upper case is  *)
(* "SS", or a bullet marker).  The words are the only places where a        *)
(* keyword can occur.                                                       *)

MaxLines == 2
HeaderMaxLen == 30
BodyMinLen == 100

W(w) == [kind |-> "word", c |-> w, n |-> 1]
Ch(c, n) == [kind |-> "chars", c |-> c, n |-> n]

section_keywords ==
    {"SUMMARY", "PROFILE", "OBJECTIVE", "EXPERIENCE", "EMPLOYMENT", "WORK EXPERIENCE",
     "PROFESSIONAL EXPERIENCE", "EDUCATION", "SKILLS", "TECHNICAL SKILLS",
     "CORE COMPETENCIES", "CERTIFICATIONS", "ACHIEVEMENTS", "PROJECTS", "CONTACT",
     "PERSONAL DETAILS"}

\* "BULLET" is the character U+2022
BulletMarkers == {"BULLET", "-", "*"}

\* len() of a word of the vocabulary
WordLen(w) ==
    CASE w \in {"EXPERIENCE", "experience"} -> 10
      [] w \in {"SKILLS", "Skills"} -> 6
      [] w \in {"WORK EXPERIENCE", "Work Experience"} -> 15
      [] w \in {"LED", "Led"} -> 3

\* str.upper() on a word and on an item
word_upper(w) ==
    CASE w \in {"EXPERIENCE", "experience"} -> "EXPERIENCE"
      [] w \in {"SKILLS", "Skills"} -> "SKILLS"
      [] w \in {"WORK EXPERIENCE", "Work Experience"} -> "WORK EXPERIENCE"
      [] w \in {"LED", "Led"} -> "LED"

item_upper(item) ==
    IF item.kind = "word" THEN W(word_upper(item.c))
    ELSE IF item.c = "x" THEN Ch("X", item.n)
    ELSE IF item.c = "ß" THEN Ch("S", 2 * item.n)
    ELSE item

line_upper(line) == [i \in 1..Len(line) |-> item_upper(line[i])]

ItemLen(item) == IF item.kind = "word" THEN WordLen(item.c) ELSE item.n

RECURSIVE LineLen(_)
LineLen(line) == IF line = <<>> THEN 0 ELSE ItemLen(Head(line)) + LineLen(Tail(line))

IsSpace(item) == item.kind = "chars" /\ item.c = " "

RECURSIVE line_lstrip(_)
line_lstrip(line) ==
    IF line # <<>> /\ IsSpace(Head(line)) THEN line_lstrip(Tail(line)) ELSE line

RECURSIVE line_rstrip(_)
line_rstrip(line) ==
    IF line # <<>> /\ IsSpace(line[Len(line)])
    THEN line_rstrip(SubSeq(line, 1, Len(line) - 1))
    ELSE line

line_strip(line) == line_rstrip(line_lstrip(line))

\* keyword in w, for an upper-case word w of the vocabulary
Occurs(keyword, w) ==
    \/ keyword = w
    \/ <<keyword, w>> \in {<<"EXPERIENCE", "WORK EXPERIENCE">>}

\* keyword in line_upper
KeywordIn(keyword, upper) ==
    \E i \in 1..Len(upper) : upper[i].kind = "word" /\ Occurs(keyword, upper[i].c)

is_section_header(line) ==
    LET upper == line_strip(line_upper(line))
    IN  \/ Len(upper) = 1 /\ upper[1].kind = "word" /\ upper[1].c \in section_keywords
        \/ /\ LineLen(upper) <= HeaderMaxLen
           /\ \E keyword \in section_keywords : KeywordIn(keyword, upper)

\* line.startswith('•') or line.startswith('-') or line.startswith('*')
StartsWithMarker(line) ==
    line # <<>> /\ line[1].kind = "chars" /\ line[1].c \in BulletMarkers

\* line[1:], for a line that starts with a run of characters
DropFirst(line) ==
    IF line[1].n > 1 THEN <<Ch(line[1].c, line[1].n - 1)>> \o Tail(line) ELSE Tail(line)

\* what the story receives: Paragraph(text, style), Spacer, HRFlowable
Paragraph(text, style) == [flowable |-> "Paragraph", style |-> style, text |-> text]
Spacer == [flowable |-> "Spacer", style |-> "none", text |-> <<>>]
HRFlowable == [flowable |-> "HRFlowable", style |-> "none", text |-> <<>>]

\* a variant that keeps the marker of a bullet line
Appended_marker_kept(raw, current_section) ==
    LET line == line_strip(raw)
    IN  IF line = <<>> THEN <<Spacer>>
        ELSE IF is_section_header(line)
        THEN (IF current_section THEN <<Spacer>> ELSE <<>>)
             \o <<Paragraph(line_upper(line), "SectionHeader"), HRFlowable>>
        ELSE IF StartsWithMarker(line)
        THEN <<Paragraph(line, "BulletPoint")>>
        ELSE IF LineLen(line) > BodyMinLen
        THEN <<Paragraph(line, "ResumeBody")>>
        ELSE IF ~current_section
        THEN <<Paragraph(line, "ContactInfo")>>
        ELSE <<Paragraph(line, "ResumeBody")>>

\* a variant that takes a line of exactly 100 characters for a long paragraph
Appended_inclusive(raw, current_section) ==
    LET line == line_strip(raw)
    IN  IF line = <<>> THEN <<Spacer>>
        ELSE IF is_section_header(line)
        THEN (IF current_section THEN <<Spacer>> ELSE <<>>)
             \o <<Paragraph(line_upper(line), "SectionHeader"), HRFlowable>>
        ELSE IF StartsWithMarker(line)
        THEN <<Paragraph(<<Ch("BULLET", 1), Ch(" ", 1)>> \o line_strip(DropFirst(line)),
                         "BulletPoint")>>
        ELSE IF LineLen(line) >= BodyMinLen
        THEN <<Paragraph(line, "ResumeBody")>>
        ELSE IF ~current_section
        THEN <<Paragraph(line, "ContactInfo")>>
        ELSE <<Paragraph(line, "ResumeBody")>>

\* the body of the loop of process_resume_content: what one line of the
\* content appends to the story; current_section says whether a section
\* header has been seen
Appended(raw, current_section) ==
    LET line == line_strip(raw)
    IN  IF line = <<>> THEN <<Spacer>>
        ELSE IF is_section_header(line)
        THEN (IF current_section THEN <<Spacer>> ELSE <<>>)
             \o <<Paragraph(line_upper(line), "SectionHeader"), HRFlowable>>
        ELSE IF StartsWithMarker(line)
        THEN <<Paragraph(<<Ch("BULLET", 1), Ch(" ", 1)>> \o line_strip(DropFirst(line)),
                         "BulletPoint")>>
        ELSE IF LineLen(line) > BodyMinLen
        THEN <<Paragraph(line, "ResumeBody")>>
        ELSE IF ~current_section
        THEN <<Paragraph(line, "ContactInfo")>>
        ELSE <<Paragraph(line, "ResumeBody")>>

\* a variant that never remembers a section header
SectionSeen_never(lines, k) == FALSE

\* whether a section header has been seen once the first k lines are done
RECURSIVE SectionSeen(_, _)
SectionSeen(lines, k) ==
    IF k = 0 THEN FALSE
    ELSE is_section_header(line_strip(lines[k])) \/ SectionSeen(lines, k - 1)

\* what each line appends, line by line
StoryParts(lines) == [k \in 1..Len(lines) |-> Appended(lines[k], SectionSeen(lines, k - 1))]

RECURSIVE Flatten(_)
Flatten(parts) == IF parts = <<>> THEN <<>> ELSE Head(parts) \o Flatten(Tail(parts))

process_resume_content(content) == Flatten(StoryParts(content))

\* the flowables of create_header and create_footer: a spacer of a height,
\* a rule of a thickness, the branding line, and the line with the date of
\* the day (today) and the branding
SpacerOf(height) == [flowable |-> "Spacer", style |-> height, text |-> <<>>]
RuleOf(thickness) == [flowable |-> "HRFlowable", style |-> thickness, text |-> <<>>]
Brand == [kind |-> "brand", c |-> "Surya's ATS-Optimized Professional Resume", n |-> 1]
GeneratedOn(today) == [kind |-> "generated", c |-> "Surya ATS Resume Bot", n |-> today]

create_header(user_name) ==
    <<Paragraph(<<Brand>>, "ContactInfo"), SpacerOf("0.1in"), RuleOf("1"), SpacerOf("0.2in")>>

create_footer(today) ==
    <<SpacerOf("0.3in"), RuleOf("0.5"), Paragraph(<<GeneratedOn(today)>>, "ContactInfo")>>

\* a variant that adds the footer before the content
build_story_footer_first(resume_content, user_name, today) ==
    create_header(user_name) \o create_footer(today) \o process_resume_content(resume_content)

\* the list story that generate_resume_pdf hands to doc.build
build_story(resume_content, user_name, today) ==
    create_header(user_name) \o process_resume_content(resume_content) \o create_footer(today)

ContentLines ==
    { <<W("EXPERIENCE")>>, <<W("experience")>>, <<W("Work Experience")>>,
      <<W("Skills"), Ch(" ", 1), Ch("x", 23)>>,
      <<W("Skills"), Ch(" ", 1), Ch("x", 24)>>,
      <<W("Skills"), Ch(" ", 1), Ch("x", 22), Ch("ß", 1)>>,
      <<Ch("x", 150)>>, <<Ch("x", 20)>>,
      <<Ch("x", BodyMinLen)>>, <<Ch("x", BodyMinLen + 1)>>,
      <<Ch("-", 1), Ch(" ", 1), W("Led"), Ch(" ", 1), Ch("x", 9)>>,
      <<Ch("-", 1), Ch(" ", 1), W("Skills")>>,
      <<Ch("*", 1), Ch("x", 40), Ch(" ", 1), W("experience")>>,
      <<Ch("BULLET", 1), Ch("x", 5)>>,
      <<Ch("-", 1)>>,
      <<>>, <<Ch(" ", 3)>>,
      <<Ch(" ", 2), W("EXPERIENCE"), Ch(" ", 40)>>,
      <<Ch(" ", 1), Ch("-", 2), Ch(" ", 1), Ch("x", 5)>> }

RECURSIVE Contents(_)
Contents(n) ==
    IF n = 0 THEN {<<>>}
    ELSE Contents(n - 1)
         \cup {Append(s, l) : s \in {t \in Contents(n - 1) : Len(t) = n - 1}, l \in ContentLines}

Rendering(content, stage, headers, parts, story) ==
    [content |-> content, stage |-> stage, headers |-> headers, parts |-> parts,
     story |-> story, built |-> <<>>]

InitRender ==
    /\ AtRest
    /\ probe \in {Some(Rendering(content, "given", <<>>, <<>>, <<>>)) :
                     content \in Contents(MaxLines) \ {<<>>}}

\* the lines as the loop passes them to is_section_header, and its answers
IsSectionHeader ==
    /\ probe[1].stage = "given"
    /\ probe' = Some([probe[1] EXCEPT
                        !.stage = "classified",
                        !.headers = [k \in 1..Len(probe[1].content) |->
                                        is_section_header(line_strip(probe[1].content[k]))]])
    /\ UNCHANGED <<user_sessions, chats, payment_processor, dispatch, issued, now, last>>

ProcessResumeContent ==
    /\ probe[1].stage = "given"
    /\ probe' = Some([probe[1] EXCEPT
                        !.stage = "rendered",
                        !.parts = StoryParts(probe[1].content),
                        !.story = process_resume_content(probe[1].content)])
    /\ UNCHANGED <<user_sessions, chats, payment_processor, dispatch, issued, now, last>>

\* generate_resume_pdf up to doc.build, on the day today
BuildStory ==
    /\ probe[1].stage = "given"
    /\ \E user_name \in {NameOf(u) : u \in TwoUsers}, today \in 0..MaxTime :
          probe' = Some([probe[1] EXCEPT
                            !.stage = "built",
                            !.built = <<user_name, today>>,
                            !.parts = StoryParts(probe[1].content),
                            !.story = build_story(probe[1].content, user_name, today)])
    /\ UNCHANGED <<user_sessions, chats, payment_processor, dispatch, issued, now, last>>

NextRender ==
    \/ IsSectionHeader
    \/ ProcessResumeContent
    \/ BuildStory

SpecRender == InitRender /\ [][NextRender]_vars

\* the trimmed upper-case form of the line is a keyword or contains one
HasKeyword(line) ==
    \E i \in 1..Len(line) :
        /\ line[i].kind = "word"
        /\ \E keyword \in section_keywords : Occurs(keyword, word_upper(line[i].c))

\* C29: a line, as the renderer passes it to the classifier, is a section
\* header if and only if its trimmed upper-case form is or contains a
\* keyword and the line has at most 30 characters; the line "EXPERIENCE" is
\* a header.
C29_HeaderIffKeywordAndShort ==
    (probe # None /\ probe[1].stage = "classified") =>
        \A k \in 1..Len(probe[1].content) :
            LET line == line_strip(probe[1].content[k])
            IN  /\ probe[1].headers[k] <=> (HasKeyword(line) /\ LineLen(line) <= HeaderMaxLen)
                /\ line = <<W("EXPERIENCE")>> => probe[1].headers[k]

\* the paragraph of a bullet: the uniform glyph, a space, and the line
\* without its marker and the whitespace after it
BulletOf(line) ==
    Paragraph(<<Ch("BULLET", 1), Ch(" ", 1)>> \o line_strip(DropFirst(line)), "BulletPoint")

\* C30 as stated: every line of the content that is not blank and starts
\* with a bullet marker is rendered as one bullet paragraph, the marker
\* replaced by the uniform glyph, whatever the rest of the line contains.
C30_MarkerLineIsBullet ==
    (probe # None /\ probe[1].stage = "rendered") =>
        \A k \in 1..Len(probe[1].content) :
            LET line == line_strip(probe[1].content[k])
            IN  StartsWithMarker(line) => probe[1].parts[k] = <<BulletOf(line)>>

\* C30, amended: every line of the content that is not blank, starts with a
\* bullet marker and is not classified as a section header is rendered as
\* one bullet paragraph, the marker replaced by the uniform glyph.
C30_MarkerLineIsBulletUnlessHeader ==
    (probe # None /\ probe[1].stage = "rendered") =>
        /\ probe[1].story = Flatten(probe[1].parts)
        /\ \A k \in 1..Len(probe[1].content) :
              LET line == line_strip(probe[1].content[k])
              IN  (StartsWithMarker(line) /\ ~is_section_header(line))
                  => probe[1].parts[k] = <<BulletOf(line)>>

\* the line "- Led" followed by nine letters is rendered as a bullet after
\* the line "- Skills" is rendered as a section header
C30_Witness ==
    /\ probe # None
    /\ probe[1].stage = "rendered"
    /\ Len(probe[1].content) = 2
    /\ probe[1].content[1] = <<Ch("-", 1), Ch(" ", 1), W("Skills")>>
    /\ probe[1].parts[1][1].style = "SectionHeader"
    /\ probe[1].content[2] = <<Ch("-", 1), Ch(" ", 1), W("Led"), Ch(" ", 1), Ch("x", 9)>>
    /\ probe[1].parts[2] =
          <<Paragraph(<<Ch("BULLET", 1), Ch(" ", 1), W("Led"), Ch(" ", 1), Ch("x", 9)>>,
                      "BulletPoint")>>

-----------------------------------------------------------------------------
(* Properties of the classification of the lines *)

\* the styles of the paragraphs that a line appended
StylesOf(part) == {part[i].style : i \in {j \in 1..Len(part) : part[j].flowable = "Paragraph"}}

\* a section header was appended for one of the first k lines
HeaderBefore(parts, k) == \E j \in 1..k : "SectionHeader" \in StylesOf(parts[j])

\* C31: a line is rendered in the contact-info style only if it has at most
\* 100 characters, is neither a section header nor a bullet, and no section
\* header was rendered for an earlier line of the document; after a section
\* header no line of the document is rendered in the contact-info style.
C31_ContactOnlyBeforeHeaders ==
    (probe # None /\ probe[1].stage = "rendered") =>
        \A k \in 1..Len(probe[1].content) :
            LET line == line_strip(probe[1].content[k])
            IN  /\ "ContactInfo" \in StylesOf(probe[1].parts[k])
                   => /\ LineLen(line) <= 100
                      /\ ~is_section_header(line)
                      /\ ~StartsWithMarker(line)
                      /\ ~HeaderBefore(probe[1].parts, k - 1)
                /\ HeaderBefore(probe[1].parts, k - 1)
                   => "ContactInfo" \notin StylesOf(probe[1].parts[k])

\* a line of twenty letters after the line "EXPERIENCE" is rendered as body
\* text
C31_Witness ==
    /\ probe # None
    /\ probe[1].stage = "rendered"
    /\ probe[1].content = <<<<W("EXPERIENCE")>>, <<Ch("x", 20)>>>>
    /\ StylesOf(probe[1].parts[1]) = {"SectionHeader"}
    /\ probe[1].parts[2] = <<Paragraph(<<Ch("x", 20)>>, "ResumeBody")>>

\* the renderings of a line: what it appended is a spacer, a section header
\* with its rule (after a spacer when a section was open), or one paragraph
\* in the bullet, body or contact-info style
Renderings(part) ==
    {r \in {"spacer", "header", "bullet", "body", "contact"} :
        CASE r = "spacer" -> part = <<Spacer>>
          [] r = "header" -> /\ Len(part) \in {2, 3}
                             /\ part[Len(part)] = HRFlowable
                             /\ part[Len(part) - 1].flowable = "Paragraph"
                             /\ part[Len(part) - 1].style = "SectionHeader"
                             /\ Len(part) = 3 => part[1] = Spacer
          [] r = "bullet" -> Len(part) = 1 /\ part[1].flowable = "Paragraph"
                                           /\ part[1].style = "BulletPoint"
          [] r = "body" -> Len(part) = 1 /\ part[1].flowable = "Paragraph"
                                         /\ part[1].style = "ResumeBody"
          [] r = "contact" -> Len(part) = 1 /\ part[1].flowable = "Paragraph"
                                            /\ part[1].style = "ContactInfo"}

-----------------------------------------------------------------------------
(* Properties of the story of a document *)

\* C33: the story of a document is the four flowables of the header block,
\* then what the lines of the content appended, line after line in the order
\* of the lines, then the three flowables of the footer block, for every
\* content, the empty text (one blank line) included; the branding line of
\* the header is the first flowable only and the line of the footer the last
\* only.
C33_HeaderContentFooter ==
    (probe # None /\ probe[1].stage = "built") =>
        LET doc == probe[1].story
            parts == probe[1].parts
            n == Len(doc)
        IN  /\ Len(parts) = Len(probe[1].content)
            /\ \A k \in 1..Len(parts) : Renderings(parts[k]) # {}
            /\ n = 4 + Len(Flatten(parts)) + 3
            /\ doc[1].text = <<Brand>>
            /\ doc[2] = SpacerOf("0.1in") /\ doc[3] = RuleOf("1") /\ doc[4] = SpacerOf("0.2in")
            /\ SubSeq(doc, 5, n - 3) = Flatten(parts)
            /\ doc[n - 2] = SpacerOf("0.3in") /\ doc[n - 1] = RuleOf("0.5")
            /\ doc[n].text = <<GeneratedOn(probe[1].built[2])>>
            /\ \A i \in 2..n : doc[i].text # <<Brand>>
            /\ \A i \in 1..(n - 1) : doc[i].text # <<GeneratedOn(probe[1].built[2])>>

\* the story of the empty text: the header block, one spacer, the footer
\* block
C33_Witness ==
    /\ probe # None
    /\ probe[1].stage = "built"
    /\ probe[1].content = <<<<>>>>
    /\ Len(probe[1].story) = 8
    /\ probe[1].story[5] = Spacer

-----------------------------------------------------------------------------
(* The prototype entry point src/main.py                                    *)
(*                                                                         *)
(* main.py registers its own handlers start, handle_document and           *)
(* handle_text on its own Application and keeps its own module-level       *)
(* dictionaries user_states and user_files.  It shares no state with the    *)
(* ATSResumeBot: its dictionaries and what its last handler did are kept in *)
(* probe, and an update is handled either by the one or by the other.       *)
(* verify_utr is imported from modules.cashfree: its answer (true, false,   *)
(* or an exception) is drawn for every call.                                *)

\* dict.get(key): None for a key that is absent
get(d, key) == IF key \in DOMAIN d THEN d[key] ELSE None

\* d[key] = value
Store(d, key, value) ==
    [k \in DOMAIN d \cup {key} |-> IF k = key THEN value ELSE d[k]]

\* What the last handler of main.py did: whether a PDF file was written
\* (generated), whether a document was sent, and what verify_utr answered
Did(op, u, reply) ==
    [op |-> op, user |-> u, reply |-> reply, state |-> None,
     verify |-> "not_attempted", generated |-> FALSE, sent |-> FALSE]

Prototype(states, files, did) ==
    [user_states |-> states, user_files |-> files, did |-> did]

\* temp/{user_id}_{file.file_name} and temp/{user_id}_ats_resume.pdf
UploadPath(u, ext) == [kind |-> "upload", user |-> u, ext |-> ext]
OutputPath(u) == [kind |-> "output", user |-> u, ext |-> "pdf"]

\* resume_processor.analyze_and_generate_pdf: TRUE when pdf.output has
\* written the file, FALSE when the extraction or the PDF library raised
analyze_and_generate_pdf(resume_path, io) ==
    LET ext == resume_path.ext
        extracted == IF ext = "pdf" \/ ext \in {"docx", "doc"}
                     THEN io.extract = "ok"
                     ELSE TRUE
    IN  extracted /\ io.output = "ok"

start(m, u) == [m EXCEPT !.did = Did("start", u, "welcome")]

handle_document(m, u, file) ==
    IF file.mime_ok
    THEN IF file.download = "raises"
         THEN [m EXCEPT !.did = Did("document", u, "none")]
         ELSE Prototype(Store(m.user_states, u, Some("awaiting_jd")),
                        Store(m.user_files, u, Some(UploadPath(u, file.ext))),
                        Did("document", u, "resume_received"))
    ELSE [m EXCEPT !.did = Did("document", u, "invalid_file")]

handle_text(m, u, text, io) ==
    LET state == get(m.user_states, u)
        did(reply) == [Did("text", u, reply) EXCEPT !.state = state]
    IN  IF state = Some("awaiting_jd")
        THEN IF analyze_and_generate_pdf(get(m.user_files, u)[1], io)
             THEN Prototype(Store(m.user_states, u, Some("awaiting_payment")),
                            Store(m.user_files, u, Some(OutputPath(u))),
                            [did("pay") EXCEPT !.generated = TRUE])
             ELSE [m EXCEPT !.did = did("none")]
        ELSE IF state = Some("awaiting_payment")
        THEN IF io.verdict = "raised"
             THEN [m EXCEPT !.did = [did("none") EXCEPT !.verify = "raised"]]
             ELSE IF io.verdict = "confirmed"
             THEN IF io.send = "raises"
                  THEN [m EXCEPT !.did = [did("none") EXCEPT !.verify = "confirmed"]]
                  ELSE Prototype(Store(m.user_states, u, None),
                                 Store(m.user_files, u, None),
                                 [did("delivered") EXCEPT !.verify = "confirmed",
                                                          !.sent = TRUE])
             ELSE [m EXCEPT !.did = [did("invalid_utr") EXCEPT !.verify = "denied"]]
        ELSE [m EXCEPT !.did = did("none")]

\* the bot with a verifier and, next to it, main.py as after its import:
\* user_states = {} and user_files = {}
InitDelivery ==
    /\ user_sessions = <<>>
    /\ chats = {1}
    /\ payment_processor = TRUE
    /\ now = 0
    /\ last = Rec("init", 0, "none")
    /\ update_queue = <<>>
    /\ tasks = <<>>
    /\ orphans = <<>>
    /\ rewritten = [u \in {1} |-> None]
    /\ issued = {}
    /\ probe = Some(Prototype(<<>>, <<>>, Did("init", 0, "none")))

Documents ==
    { [mime_ok |-> TRUE, ext |-> "pdf", download |-> "ok"],
      [mime_ok |-> TRUE, ext |-> "bin", download |-> "ok"],
      [mime_ok |-> TRUE, ext |-> "pdf", download |-> "raises"],
      [mime_ok |-> FALSE, ext |-> "txt", download |-> "ok"] }

Io ==
    [extract : {"ok", "raises"}, output : {"ok", "raises"},
     verdict : {"confirmed", "denied", "raised"}, send : {"ok", "raises"}]

OnlyPrototype(m) ==
    /\ probe' = Some(m)
    /\ UNCHANGED <<user_sessions, chats, payment_processor, dispatch, issued, now, last>>

PrototypeStart == \E u \in Chats : OnlyPrototype(start(probe[1], u))

PrototypeDocument ==
    \E u \in Chats, file \in Documents : OnlyPrototype(handle_document(probe[1], u, file))

PrototypeText ==
    \E u \in Chats, text \in {JdA, Utr998}, io \in Io :
        OnlyPrototype(handle_text(probe[1], u, text, io))

NextDelivery ==
    \/ StartCommand
    \/ ResumeUploadOfTwo
    \/ TextInputOfStatus
    \/ CallbackOfTwo
    \/ PrototypeStart
    \/ PrototypeDocument
    \/ PrototypeText

SpecDelivery == InitDelivery /\ [][NextDelivery]_vars

-----------------------------------------------------------------------------
(* Properties of the delivery *)

\* a step of the ATSResumeBot that generated a PDF or sent a document
BotDelivers == probe' = probe /\ (last'.pdf # None \/ last'.sent)

\* a step of main.py that wrote a PDF file or sent a document
PrototypeDelivers ==
    probe' # probe /\ (probe'[1].did.generated \/ probe'[1].did.sent)

\* C34: a PDF is generated or sent to a user only by the handling of a text
\* of that user that the verifier confirmed while the user's session was
\* awaiting the payment reference; no other update of either entry point
\* generates or sends a document.
C34_DeliveryOnlyOnConfirmation ==
    [][ /\ BotDelivers
           => /\ last'.op = "text"
              /\ last'.verify = "confirmed"
              /\ HasSession(last'.user)
              /\ Session(last'.user).step = "waiting_utr"
        /\ PrototypeDelivers
           => /\ probe'[1].did.op = "text"
              /\ probe'[1].did.verify = "confirmed"
              /\ get(probe[1].user_states, probe'[1].did.user) = Some("awaiting_payment")
      ]_vars

-----------------------------------------------------------------------------
(* Properties of the resume of a session *)

\* C35: every session whose step is other than waiting_resume holds a
\* resume_text that was accepted, a text of at least MinResumeLen
\* characters; no sequence of updates moves a session past waiting_resume
\* without one.
C35_PastAwaitingResumeHasResume ==
    \A u \in DOMAIN user_sessions :
        Session(u).step # "waiting_resume"
        => /\ Session(u).resume_text # None
           /\ TextLen(Session(u).resume_text[1]) >= MinResumeLen

-----------------------------------------------------------------------------
(* The payment among the coroutines: the dispatcher of the bot with a       *)
(* verifier, with the payment request and the payment reference among its  *)
(* updates                                                                  *)

UpdatesOfPayment ==
    { Update("start", u, NoFile, <<>>) : u \in Chats }
    \cup { Update("file", u, FileA, <<>>) : u \in Chats }
    \cup { Update("text", u, NoFile, t) : u \in Chats, t \in {JdA, Utr998} }
    \cup { Update("initiate_payment", u, NoFile, <<>>) : u \in Chats }

EnqueueOfPayment ==
    /\ Len(update_queue) < MaxQueue
    /\ \E update \in UpdatesOfPayment : update_queue' = Append(update_queue, update)
    /\ UNCHANGED <<user_sessions, chats, payment_processor, now, last, probe,
                   tasks, orphans, rewritten, issued>>

NextPayment ==
    \/ EnqueueOfPayment
    \/ update_fetcher
    \/ ResumeTask

SpecPayment == InitVerifier /\ [][NextPayment]_vars

\* C36: a session whose step is completed holds a payment_id, which only
\* initiate_payment writes and only into the session it finds, and an
\* optimized_resume that is not empty; a start command that arrives while a
\* verification is outstanding waits for it and changes nothing of this.
C36_CompletedHasPaymentIdAndResume ==
    \A u \in DOMAIN user_sessions :
        Session(u).step = "completed"
        => /\ Session(u).payment_id # None
           /\ Session(u).payment_id[1][1] = u
           /\ Session(u).optimized_resume # None
           /\ TextLen(Session(u).optimized_resume[1]) > 0
           /\ Session(u).utr # None

\* a verification has completed the session while the start command of the
\* same user was waiting in update_queue
C36_Witness ==
    /\ tasks # <<>>
    /\ tasks[1].kind = "text" /\ tasks[1].pc = "end" /\ tasks[1].reply = "delivered"
    /\ update_queue # <<>>
    /\ Head(update_queue).kind = "start" /\ Head(update_queue).user = tasks[1].user
    /\ HasSession(tasks[1].user)
    /\ Session(tasks[1].user).step = "completed"

-----------------------------------------------------------------------------
(* Properties of the retry request *)

\* C37: the retry request (callback restart_process) to a user with a
\* session, in whichever step, makes the step waiting_job_description, sets
\* job_description and optimized_resume to None and leaves resume_text,
\* payment_id, utr and user_name as they were.
C37_RestartFrame ==
    [][\A u \in Chats :
          (HasSession(u) /\ Handled("restart_process", u))
          => /\ user_sessions'[u].step = "waiting_job_description"
             /\ user_sessions'[u].job_description = None
             /\ user_sessions'[u].optimized_resume = None
             /\ user_sessions'[u].resume_text = Session(u).resume_text
             /\ user_sessions'[u].payment_id = Session(u).payment_id
             /\ user_sessions'[u].utr = Session(u).utr
             /\ user_sessions'[u].user_name = Session(u).user_name]_vars

\* the retry request was handled for a session that had been completed: its
\* resume, payment id and reference are still there
C37_Witness ==
    /\ last.op = "restart_process" /\ last.reply = "restarted"
    /\ HasSession(last.user)
    /\ Session(last.user).step = "waiting_job_description"
    /\ Session(last.user).job_description = None
    /\ Session(last.user).optimized_resume = None
    /\ Session(last.user).resume_text # None
    /\ Session(last.user).payment_id # None
    /\ Session(last.user).utr = Some(Utr998)

-----------------------------------------------------------------------------
(* Properties of the stored reference *)

\* the handling of an update leaves the user with a reference in the session
\* that the session did not hold before
RecordsUtr(u) ==
    /\ u \in DOMAIN user_sessions'
    /\ user_sessions'[u].utr # None
    /\ (HasSession(u) => user_sessions'[u].utr # Session(u).utr)

\* C38: utr is written only by the step that makes the session completed,
\* the handling of a reference that the verifier confirmed and from whose
\* session the PDF was generated, and it is that reference; the handling of
\* a text that fails the format check, is denied, or whose verification or
\* rendering raises leaves utr as it was.
C38_UtrOnlyOnCompletion ==
    [][\A u \in Chats :
          /\ RecordsUtr(u)
             => /\ HasSession(u)
                /\ Session(u).step # "completed"
                /\ user_sessions'[u].step = "completed"
                /\ Handled("text", u)
                /\ last'.verify = "confirmed"
                /\ last'.pdf # None
                /\ last'.verifier_call # None
                /\ user_sessions'[u].utr = Some(last'.verifier_call[1][1])
          /\ ( /\ HasSession(u)
               /\ Handled("text", u)
               /\ (last'.verify # "confirmed" \/ last'.pdf = None) )
             => user_sessions'[u].utr = Session(u).utr]_vars

\* a confirmed reference whose rendering failed was handled: the session
\* awaits the reference still and holds none
C38_Witness ==
    /\ last.op = "text" /\ last.reply = "delivery_error"
    /\ last.verify = "confirmed" /\ last.pdf = None
    /\ last.verifier_call # None /\ last.verifier_call[1][1] = Utr998
    /\ HasSession(last.user)
    /\ Session(last.user).step = "waiting_utr"
    /\ Session(last.user).optimized_resume # None
    /\ Session(last.user).utr = None

=============================================================================
